---- MODULE Spec2Model ----
(***************************************************************************)
(* Model of the risk-metrics engine of market_int: candle aggregation,     *)
(* true-range statistics (atr.rs), drawdown statistics (maxdrop.rs),       *)
(* Sharpe statistics (sharpe.rs), the strike-band projector (option.rs)    *)
(* and the SQLite tables the batch runs read and write (store/*.rs).       *)
(*                                                                         *)
(* f64 values are modelled as exact rationals plus the IEEE-754 special    *)
(* values +inf, -inf and NaN. Where the code compares computed values for  *)
(* equality (the EMA of a series, the standard deviation of the Sharpe     *)
(* ratio) the operations are rounded, to nearest and ties to even, at a    *)
(* significand of Precision bits; elsewhere finite results are exact.      *)
(***************************************************************************)
EXTENDS Integers, Sequences, FiniteSets, TLC

-----------------------------------------------------------------------------
(* Exact rational arithmetic on normalised pairs <<n, d>>, d > 0.          *)

Abs(x) == IF x < 0 THEN -x ELSE x

RECURSIVE GCD(_, _)
GCD(a, b) == IF b = 0 THEN a ELSE GCD(b, a % b)

Norm(n, d) ==
    LET g == GCD(Abs(n), Abs(d))
        s == IF d < 0 THEN -1 ELSE 1
    IN  <<(s * n) \div g, (s * d) \div g>>

RAdd(a, b) ==
    LET g == GCD(a[2], b[2])
    IN  Norm(a[1] * (b[2] \div g) + b[1] * (a[2] \div g), a[2] * (b[2] \div g))

RNeg(a) == <<-a[1], a[2]>>

RMul(a, b) ==
    LET g1 == GCD(Abs(a[1]), b[2])
        g2 == GCD(Abs(b[1]), a[2])
        h1 == IF g1 = 0 THEN 1 ELSE g1
        h2 == IF g2 = 0 THEN 1 ELSE g2
    IN  Norm((a[1] \div h1) * (b[1] \div h2), (a[2] \div h2) * (b[2] \div h1))

RInv(a) == Norm(a[2], a[1])

RLt(a, b) == RAdd(a, RNeg(b))[1] < 0

-----------------------------------------------------------------------------
(* f64: a finite rational or one of the IEEE special values.               *)

Fin(n, d) == [k |-> "fin", n |-> Norm(n, d)[1], d |-> Norm(n, d)[2]]
FromR(r)  == [k |-> "fin", n |-> r[1], d |-> r[2]]
ToR(x)    == <<x.n, x.d>>
INF       == [k |-> "inf", n |-> 0, d |-> 1]
NEG_INF   == [k |-> "ninf", n |-> 0, d |-> 1]
NAN       == [k |-> "nan", n |-> 0, d |-> 1]
ZERO      == Fin(0, 1)
ONE       == Fin(1, 1)

is_nan(x)    == x.k = "nan"
is_finite(x) == x.k = "fin"

\* sign of a value that is not NaN: -1, 0 or 1
Sgn(x) ==
    CASE x.k = "inf"  -> 1
      [] x.k = "ninf" -> -1
      [] OTHER        -> IF x.n > 0 THEN 1 ELSE IF x.n < 0 THEN -1 ELSE 0

SignedInf(s) == IF s > 0 THEN INF ELSE NEG_INF

FNeg(x) ==
    CASE x.k = "fin"  -> FromR(RNeg(ToR(x)))
      [] x.k = "inf"  -> NEG_INF
      [] x.k = "ninf" -> INF
      [] OTHER        -> NAN

FAdd(x, y) ==
    CASE is_nan(y) \/ is_nan(x)           -> NAN
      [] is_finite(x) /\ is_finite(y)     -> FromR(RAdd(ToR(x), ToR(y)))
      [] is_finite(x)                     -> y
      [] is_finite(y)                     -> x
      [] OTHER                            -> IF x.k = y.k THEN x ELSE NAN

FSub(x, y) == FAdd(x, FNeg(y))

FMul(x, y) ==
    CASE is_nan(x) \/ is_nan(y)           -> NAN
      [] is_finite(x) /\ is_finite(y)     -> FromR(RMul(ToR(x), ToR(y)))
      [] Sgn(x) = 0 \/ Sgn(y) = 0         -> NAN
      [] OTHER                            -> SignedInf(Sgn(x) * Sgn(y))

\* a zero divisor is +0.0: the prices and differences divided by here are
\* never negative zero
FDiv(x, y) ==
    CASE is_nan(x) \/ is_nan(y)           -> NAN
      [] is_finite(x) /\ is_finite(y)     ->
            IF y.n # 0 THEN FromR(RMul(ToR(x), RInv(ToR(y))))
            ELSE IF x.n = 0 THEN NAN ELSE SignedInf(Sgn(x))
      [] is_finite(x)                     -> ZERO
      [] is_finite(y)                     ->
            SignedInf(Sgn(x) * (IF Sgn(y) < 0 THEN -1 ELSE 1))
      [] OTHER                            -> NAN

\* the comparison operators of f64: false as soon as one side is NaN
FLt(x, y) ==
    /\ ~is_nan(x) /\ ~is_nan(y)
    /\ CASE is_finite(x) /\ is_finite(y) -> RLt(ToR(x), ToR(y))
         [] OTHER -> x.k # y.k /\ (x.k = "ninf" \/ y.k = "inf")

FEq(x, y) == ~is_nan(x) /\ ~is_nan(y) /\ x = y
FLe(x, y) == FLt(x, y) \/ FEq(x, y)
FGt(x, y) == FLt(y, x)
FGe(x, y) == FLe(y, x)

\* f64::abs, f64::max, f64::min (max and min ignore a NaN operand)
FAbs(x) == IF ~is_nan(x) /\ Sgn(x) < 0 THEN FNeg(x) ELSE x
FMax(x, y) == IF is_nan(x) THEN y ELSE IF is_nan(y) THEN x
              ELSE IF FLt(x, y) THEN y ELSE x
FMin(x, y) == IF is_nan(x) THEN y ELSE IF is_nan(y) THEN x
              ELSE IF FLt(y, x) THEN y ELSE x

\* f64::partial_cmp(..).unwrap() panics when an operand is NaN
CmpPanics(x, y) == is_nan(x) \/ is_nan(y)

-----------------------------------------------------------------------------
(* f64 with its rounding: binary floating point m * 2^e, round to nearest, *)
(* ties to even, with a significand of Precision bits (f64 has 53) and an  *)
(* unbounded exponent. Used where the code compares computed values for    *)
(* equality: the EMA and the Sharpe ratio.                                 *)

Precision == 8

RECURSIVE Pow2(_)
Pow2(k) == IF k <= 0 THEN 1 ELSE 2 * Pow2(k - 1)

\* number of bits of a >= 0
RECURSIVE BitLen(_)
BitLen(a) == IF a = 0 THEN 0 ELSE 1 + BitLen(a \div 2)

Bin(m, e) == [k |-> "fin", m |-> m, e |-> e]
BZERO == Bin(0, 0)
BSpecial(k) == [k |-> k, m |-> 0, e |-> 0]

\* the integer m times 2^e, rounded to Precision bits and normalised
BNorm(m, e) ==
    LET a == Abs(m)
        s == IF m < 0 THEN -1 ELSE 1
        L == BitLen(a)
    IN  IF a = 0 THEN BZERO
        ELSE IF L <= Precision
        THEN Bin(m * Pow2(Precision - L), e - (Precision - L))
        ELSE LET k    == L - Precision
                 q    == a \div Pow2(k)
                 r    == a % Pow2(k)
                 half == Pow2(k - 1)
                 up   == r > half \/ (r = half /\ q % 2 = 1)
                 q1   == IF up THEN q + 1 ELSE q
             IN  IF q1 = Pow2(Precision)
                 THEN Bin(s * Pow2(Precision - 1), e + k + 1)
                 ELSE Bin(s * q1, e + k)

\* the sign and kind of a value, as an exact f64, for the IEEE special cases
BProxy(x) == IF x.k = "fin"
             THEN Fin(IF x.m < 0 THEN -1 ELSE IF x.m > 0 THEN 1 ELSE 0, 1)
             ELSE [k |-> x.k, n |-> 0, d |-> 1]

\* a result with a non-finite operand or a zero divisor: non-finite, or zero
BOfSpecial(r) == IF r.k = "fin" THEN BZERO ELSE BSpecial(r.k)

\* the f64 nearest to a rational or special value
RECURSIVE RoundQuotient(_, _, _)
RoundQuotient(a, d, k) ==
    IF a < Pow2(Precision + 2) * d
    THEN RoundQuotient(2 * a, d, k + 1)
    ELSE <<2 * (a \div d) + (IF a % d = 0 THEN 0 ELSE 1), -(k + 1)>>

ToB(x) ==
    IF x.k # "fin" THEN BSpecial(x.k)
    ELSE IF x.n = 0 THEN BZERO
    ELSE LET q == RoundQuotient(Abs(x.n), x.d, 0)
         IN  BNorm((IF x.n < 0 THEN -1 ELSE 1) * q[1], q[2])

FromB(x) ==
    IF x.k # "fin" THEN [k |-> x.k, n |-> 0, d |-> 1]
    ELSE IF x.e >= 0 THEN Fin(x.m * Pow2(x.e), 1)
    ELSE Fin(x.m, Pow2(-x.e))

BNeg(x) ==
    IF x.k = "fin" THEN Bin(-x.m, x.e) ELSE BOfSpecial(FNeg(BProxy(x)))

BAdd(x, y) ==
    IF x.k # "fin" \/ y.k # "fin" THEN BOfSpecial(FAdd(BProxy(x), BProxy(y)))
    ELSE IF x.m = 0 THEN y
    ELSE IF y.m = 0 THEN x
    ELSE IF x.e - y.e >= Precision + 2 THEN x
    ELSE IF y.e - x.e >= Precision + 2 THEN y
    ELSE LET e == IF x.e < y.e THEN x.e ELSE y.e
         IN  BNorm(x.m * Pow2(x.e - e) + y.m * Pow2(y.e - e), e)

BSub(x, y) == BAdd(x, BNeg(y))

BMul(x, y) ==
    IF x.k # "fin" \/ y.k # "fin" THEN BOfSpecial(FMul(BProxy(x), BProxy(y)))
    ELSE BNorm(x.m * y.m, x.e + y.e)

BDiv(x, y) ==
    IF x.k # "fin" \/ y.k # "fin" \/ y.m = 0
    THEN BOfSpecial(FDiv(BProxy(x), BProxy(y)))
    ELSE IF x.m = 0 THEN BZERO
    ELSE LET num == Abs(x.m) * Pow2(Precision + 2)
             q   == 2 * (num \div Abs(y.m)) + (IF num % Abs(y.m) = 0 THEN 0 ELSE 1)
             s   == IF (x.m < 0) = (y.m < 0) THEN 1 ELSE -1
         IN  BNorm(s * q, x.e - y.e - (Precision + 2) - 1)

\* the integer square root of n >= 0
RECURSIVE Isqrt(_)
Isqrt(n) ==
    IF n < 2 THEN n
    ELSE CHOOSE r \in {IF (t + 1) * (t + 1) <= n THEN t + 1 ELSE t :
                          t \in {2 * Isqrt(n \div 4)}} : TRUE

\* f64::sqrt, correctly rounded
BSqrt(x) ==
    IF x.k = "inf" THEN x
    ELSE IF x.k # "fin" \/ x.m < 0 THEN BSpecial("nan")
    ELSE IF x.m = 0 THEN BZERO
    ELSE LET t    == IF (x.e - (Precision + 4)) % 2 = 0
                     THEN Precision + 4 ELSE Precision + 5
             M    == x.m * Pow2(t)
             root == Isqrt(M)
         IN  BNorm(2 * root + (IF root * root = M THEN 0 ELSE 1),
                   ((x.e - t) \div 2) - 1)

\* x == y on f64
BEq(x, y) == x.k # "nan" /\ y.k # "nan" /\ x = y

-----------------------------------------------------------------------------
(* u32 volumes, kept at their width as two 16-bit limbs <<hi, lo>>.        *)

Limb == 65536

U32(hi, lo) == <<hi, lo>>

\* a + b on u32: the wrapped sum and whether it overflowed
U32Add(a, b) ==
    LET lo == a[2] + b[2]
        hi == a[1] + b[1] + (lo \div Limb)
    IN  [v |-> <<hi % Limb, lo % Limb>>, overflow |-> hi >= Limb]

-----------------------------------------------------------------------------
(* Results.                                                                *)

Ok(v)   == [tag |-> "Ok", v |-> v, e |-> "none"]
Err(e)  == [tag |-> "Err", v |-> NAN, e |-> e]
Panic   == [tag |-> "panic", v |-> NAN, e |-> "panic"]

-----------------------------------------------------------------------------
(* model::Candle and the aggregation of candles into bars.                 *)

Candle(symbol, open, high, low, close, volume, timestamp) ==
    [symbol |-> symbol, open |-> open, high |-> high, low |-> low,
     close |-> close, volume |-> volume, timestamp |-> timestamp]

Min2(a, b) == IF a < b THEN a ELSE b

\* variant: slice::chunks_exact(chunk_size), which leaves the short rest out
RECURSIVE chunks_exact(_, _)
chunks_exact(s, chunk_size) ==
    IF Len(s) < chunk_size THEN <<>>
    ELSE <<SubSeq(s, 1, chunk_size)>>
            \o chunks_exact(SubSeq(s, chunk_size + 1, Len(s)), chunk_size)

\* slice::chunks(chunk_size): split off min(len, chunk_size) elements until
\* the slice is empty
RECURSIVE chunks(_, _)
chunks(s, chunk_size) ==
    IF s = <<>> THEN <<>>
    ELSE LET sz == Min2(Len(s), chunk_size)
         IN  <<SubSeq(s, 1, sz)>> \o chunks(SubSeq(s, sz + 1, Len(s)), chunk_size)

\* chunk.iter().map(|c| c.high).max_by(partial_cmp): the last greatest
RECURSIVE max_high(_, _)
max_high(chunk, i) ==
    IF i = 1 THEN chunk[1].high
    ELSE LET m == max_high(chunk, i - 1)
         IN  IF FGt(m, chunk[i].high) THEN m ELSE chunk[i].high

\* chunk.iter().map(|c| c.low).min_by(partial_cmp): the first least
RECURSIVE min_low(_, _)
min_low(chunk, i) ==
    IF i = 1 THEN chunk[1].low
    ELSE LET m == min_low(chunk, i - 1)
         IN  IF FGt(m, chunk[i].low) THEN chunk[i].low ELSE m

\* variant: the volume of a bar is left at 0
volume_zero(chunk, i) == [v |-> U32(0, 0), overflow |-> FALSE]

\* chunk.iter().map(|c| c.volume).sum() on u32
RECURSIVE volume_sum(_, _)
volume_sum(chunk, i) ==
    IF i = 0 THEN [v |-> U32(0, 0), overflow |-> FALSE]
    ELSE LET acc == volume_sum(chunk, i - 1)
             nxt == U32Add(acc.v, chunk[i].volume)
         IN  [v |-> nxt.v, overflow |-> acc.overflow \/ nxt.overflow]

\* the bar built from one chunk in atr::calculate_and_save
weekly_candle(chunk, symbol) ==
    Candle(symbol,
           chunk[1].open,
           max_high(chunk, Len(chunk)),
           min_low(chunk, Len(chunk)),
           chunk[Len(chunk)].close,
           volume_sum(chunk, Len(chunk)).v,
           chunk[1].timestamp)

\* candles.chunks(5).map(..).collect() of atr::calculate_and_save; with
\* overflow checks compiled in, a volume sum that overflows u32 panics
weekly_candles(candles, symbol, checks) ==
    LET cs == chunks(candles, 5)
    IN  IF checks /\ \E j \in 1..Len(cs) : volume_sum(cs[j], Len(cs[j])).overflow
        THEN Panic
        ELSE Ok([j \in 1..Len(cs) |-> weekly_candle(cs[j], symbol)])

\* the bar built from one group in calc_atr::calculate_and_save
RECURSIVE group_high(_, _)
group_high(group, i) ==
    IF i = 0 THEN group[1].high
    ELSE LET high == group_high(group, i - 1)
         IN  IF FGt(group[i].high, high) THEN group[i].high ELSE high

RECURSIVE group_low(_, _)
group_low(group, i) ==
    IF i = 0 THEN group[1].low
    ELSE LET low == group_low(group, i - 1)
         IN  IF FLt(group[i].low, low) THEN group[i].low ELSE low

calc_atr_candle(group, symbol) ==
    Candle(symbol,
           group[1].open,
           group_high(group, Len(group)),
           group_low(group, Len(group)),
           group[Len(group)].close,
           U32(0, 0),
           group[1].timestamp)

calc_atr_candles(candles, symbol) ==
    LET cs == chunks(candles, 5)
    IN  [j \in 1..Len(cs) |-> calc_atr_candle(cs[j], symbol)]

-----------------------------------------------------------------------------
(* atr.rs: true-range ratios, EMA and percentile.                          *)

calculate_range(value, reference) ==
    FDiv(FAbs(FSub(value, reference)), FMin(value, reference))

\* variant: only the two ranges against the previous close are compared
true_range_ratio_gaps_only(current, previous) ==
    LET range2 == calculate_range(current.high, previous.close)
        range3 == calculate_range(current.low, previous.close)
    IN  FMax(range2, range3)

true_range_ratio(current, previous) ==
    LET range1 == FDiv(FSub(current.high, current.low), current.low)
        range2 == calculate_range(current.high, previous.close)
        range3 == calculate_range(current.low, previous.close)
    IN  FMax(FMax(range1, range2), range3)

\* candles.windows(2).map(|w| true_range_ratio(&w[1], &w[0]))
true_ranges_ratio(candles) ==
    IF Len(candles) < 2 THEN <<>>
    ELSE [i \in 1..(Len(candles) - 1) |->
            true_range_ratio(candles[i + 1], candles[i])]

\* variant: the weighted previous value is subtracted
ema_minus(prev, current, multiplier) ==
    FromB(BSub(BMul(ToB(current), ToB(multiplier)),
               BMul(ToB(prev), BSub(ToB(ONE), ToB(multiplier)))))

\* current * multiplier + prev * (1.0 - multiplier), each operation rounded
ema(prev, current, multiplier) ==
    FromB(BAdd(BMul(ToB(current), ToB(multiplier)),
               BMul(ToB(prev), BSub(ToB(ONE), ToB(multiplier)))))

\* 2.0 / (period as f64 + 1.0)
ema_multiplier(period) ==
    FromB(BDiv(ToB(Fin(2, 1)), BAdd(ToB(Fin(period, 1)), ToB(ONE))))

\* the EMA value after the elements lo..hi, coming from the value ema_value;
\* the range is halved so that the evaluation stays shallow
RECURSIVE ema_over(_, _, _, _, _)
ema_over(array, lo, hi, ema_value, multiplier) ==
    IF lo > hi THEN ema_value
    ELSE IF lo = hi THEN ema(ema_value, array[lo], multiplier)
    ELSE LET mid == (lo + hi) \div 2
         IN  CHOOSE r \in {ema_over(array, mid + 1, hi, left, multiplier) :
                              left \in {ema_over(array, lo, mid, ema_value,
                                                  multiplier)}} : TRUE

\* the loop `for i in 1..array.len()` up to and including (0-based) index i
ema_fold(array, i, multiplier) ==
    CHOOSE r \in {ema_over(array, 2, i + 1, first, multiplier) :
                     first \in {array[1]}} : TRUE

\* variant: a series as long as the period is refused too
exponential_moving_average_longer(array, period) ==
    IF Len(array) <= period
    THEN Err("NotEnoughCandlesForStatistics")
    ELSE IF array = <<>> THEN Panic
    ELSE Ok(ema_fold(array, Len(array) - 1, ema_multiplier(period)))

\* array[0] of an empty array (period 0) is out of bounds and panics
exponential_moving_average(array, period) ==
    IF Len(array) < period
    THEN Err("NotEnoughCandlesForStatistics")
    ELSE IF array = <<>> THEN Panic
    ELSE Ok(ema_fold(array, Len(array) - 1, ema_multiplier(period)))

\* the loop `for &a in array` of calc_atr.rs, which starts from prev = 0.0
RECURSIVE calc_atr_ema_fold(_, _, _)
calc_atr_ema_fold(array, i, multiplier) ==
    IF i = 0 THEN ZERO
    ELSE ema(calc_atr_ema_fold(array, i - 1, multiplier), array[i], multiplier)

calc_atr_exponential_moving_average(array, period) ==
    IF Len(array) < period
    THEN Err("NotEnoughCandlesForStatistics")
    ELSE Ok(calc_atr_ema_fold(array, Len(array), ema_multiplier(period)))

\* values.sort_by(|a, b| a.partial_cmp(b).unwrap()): ascending, stable
RECURSIVE insert_sorted(_, _)
insert_sorted(sorted, x) ==
    IF sorted = <<>> THEN <<x>>
    ELSE IF FLt(x, sorted[Len(sorted)])
         THEN insert_sorted(SubSeq(sorted, 1, Len(sorted) - 1), x)
                  \o <<sorted[Len(sorted)]>>
         ELSE sorted \o <<x>>

\* variant: the values are left in the order given
sort_by_none(values, i) == SubSeq(values, 1, i)

RECURSIVE sort_by(_, _)
sort_by(values, i) ==
    IF i = 0 THEN <<>> ELSE insert_sorted(sort_by(values, i - 1), values[i])

\* the sort compares every element at least once when there are two or more
sort_panics(values) ==
    Len(values) >= 2 /\ \E i \in 1..Len(values) : is_nan(values[i])

Floor(x) == x.n \div x.d
Ceil(x)  == -((-x.n) \div x.d)

percentile(values, p) ==
    IF values = <<>>
    THEN Err("NotEnoughCandlesForStatistics")
    ELSE IF ~(FLe(ZERO, p) /\ FLe(p, ONE))
    THEN Err("NotEnoughCandlesForStatistics")
    ELSE IF sort_panics(values) THEN Panic
    ELSE LET sorted == sort_by(values, Len(values))
             index  == FMul(p, Fin(Len(values) - 1, 1))
             lower  == Floor(index)
             upper  == Ceil(index)
             weight == FSub(index, Fin(Floor(index), 1))
         IN  IF FLt(index, ZERO) THEN Ok(sorted[1])
             ELSE IF FGe(index, Fin(Len(values), 1)) THEN Ok(sorted[Len(sorted)])
             ELSE Ok(FAdd(FMul(sorted[lower + 1], FSub(ONE, weight)),
                          FMul(sorted[upper + 1], weight)))

\* calc_atr.rs: no upper limit on the percentile; upper is always lower + 1,
\* and values[upper] past the end panics
calc_atr_percentile(values, p) ==
    IF values = <<>>
    THEN Err("NotEnoughCandlesForStatistics")
    ELSE IF FLt(p, ZERO)
    THEN Err("NotEnoughCandlesForStatistics")
    ELSE IF FEq(p, Fin(1, 2)) /\ Len(values) = 1 THEN Ok(values[1])
    ELSE IF sort_panics(values) THEN Panic
    ELSE LET sorted == sort_by(values, Len(values))
             index  == FMul(p, Fin(Len(values) - 1, 1))
             lower  == IF is_nan(index) THEN 0 ELSE Floor(index)
             upper  == lower + 1
             weight == IF is_nan(index) THEN NAN
                       ELSE FSub(index, Fin(Floor(index), 1))
         IN  IF FLt(index, ZERO) \/ FGe(index, Fin(Len(values), 1)) THEN Panic
             ELSE IF upper + 1 > Len(sorted) THEN Panic
             ELSE Ok(FAdd(FMul(sorted[lower + 1], FSub(ONE, weight)),
                          FMul(sorted[upper + 1], weight)))

-----------------------------------------------------------------------------
(* maxdrop.rs: the max-drop ratio of one chunk.                            *)

\* state of the loop `for candle in candles.iter().skip(1)` after the
\* (1-based) candle i
\* variant: the drop inside the first candle is counted too
RECURSIVE max_drop_loop_first(_, _)
max_drop_loop_first(candles, i) ==
    IF i = 1
    THEN [max_drop |-> FMax(ZERO, FSub(candles[1].high, candles[1].low)),
          peak |-> candles[1].high, trough |-> candles[1].low]
    ELSE LET st      == max_drop_loop_first(candles, i - 1)
             peak    == FMax(st.peak, candles[i].high)
             trough  == FMin(st.trough, candles[i].low)
             current_drop == FSub(peak, candles[i].low)
         IN  [max_drop |-> FMax(st.max_drop, current_drop),
              peak |-> peak, trough |-> trough]

\* variant: the drop of the last candle replaces the largest one
RECURSIVE max_drop_loop_last(_, _)
max_drop_loop_last(candles, i) ==
    IF i = 1
    THEN [max_drop |-> ZERO, peak |-> candles[1].high, trough |-> candles[1].low]
    ELSE LET st      == max_drop_loop_last(candles, i - 1)
             peak    == FMax(st.peak, candles[i].high)
             trough  == FMin(st.trough, candles[i].low)
         IN  [max_drop |-> FSub(peak, candles[i].low),
              peak |-> peak, trough |-> trough]

RECURSIVE max_drop_loop(_, _)
max_drop_loop(candles, i) ==
    IF i = 1
    THEN [max_drop |-> ZERO, peak |-> candles[1].high, trough |-> candles[1].low]
    ELSE \* st: the state after the candles before the i-th
         CHOOSE r \in
            {LET peak    == FMax(st.peak, candles[i].high)
                 trough  == FMin(st.trough, candles[i].low)
                 current_drop == FSub(peak, candles[i].low)
             IN  [max_drop |-> FMax(st.max_drop, current_drop),
                  peak |-> peak, trough |-> trough] :
                st \in {max_drop_loop(candles, i - 1)}} : TRUE

calculate_max_drop(candles) ==
    IF candles = <<>> THEN ZERO
    ELSE LET st == max_drop_loop(candles, Len(candles))
         IN  FDiv(st.max_drop, st.trough)

\* candles.chunks(period).map(calculate_max_drop).filter(|&drop| drop > 0.0)
RECURSIVE filter_positive(_)
filter_positive(drops) ==
    IF drops = <<>> THEN <<>>
    ELSE (IF FGt(drops[1], ZERO) THEN <<drops[1]>> ELSE <<>>)
             \o filter_positive(Tail(drops))

max_drops(candles, period) ==
    LET cs == chunks(candles, period)
    IN  filter_positive([j \in 1..Len(cs) |-> calculate_max_drop(cs[j])])

-----------------------------------------------------------------------------
(* sharpe.rs: period returns and the annualised Sharpe ratio.              *)

\* variant: the return taken from the later close back to the earlier one
calculate_returns_backwards(candles) ==
    IF Len(candles) < 2 THEN <<>>
    ELSE [i \in 1..(Len(candles) - 1) |->
            FromB(BDiv(BSub(ToB(candles[i].close), ToB(candles[i + 1].close)),
                       ToB(candles[i].close)))]

\* candles.windows(2).map(|w| (w[1].close - w[0].close) / w[0].close),
\* each operation rounded
calculate_returns(candles) ==
    IF Len(candles) < 2 THEN <<>>
    ELSE [i \in 1..(Len(candles) - 1) |->
            FromB(BDiv(BSub(ToB(candles[i + 1].close), ToB(candles[i].close)),
                       ToB(candles[i].close)))]

\* acc + xs[lo] + ... + xs[hi], added from left to right, each sum rounded;
\* the range is halved so that the evaluation stays shallow
RECURSIVE sum_range(_, _, _, _)
sum_range(xs, lo, hi, acc) ==
    IF lo > hi THEN acc
    ELSE IF lo = hi THEN BAdd(acc, xs[lo])
    ELSE LET mid == (lo + hi) \div 2
         IN  CHOOSE r \in {sum_range(xs, mid + 1, hi, left) :
                              left \in {sum_range(xs, lo, mid, acc)}} : TRUE

\* iter().sum::<f64>() of the first i elements, on rounded values
sum_f64(xs, i) == sum_range(xs, 1, i, BZERO)

\* A Sharpe value with k = "fin" is (avg * 252) / (sqrt(variance) * sqrt(252))
\* for the f64 values avg and variance > 0: the square roots are kept
\* symbolic.
SharpeValue(k, avg, variance) == [k |-> k, avg |-> avg, variance |-> variance]

\* annualized_avg_excess_return / annualized_std_dev
annualized_sharpe(avg, variance) ==
    IF avg.k = "fin" /\ variance.k = "fin"
    THEN SharpeValue("fin", avg, variance)
    ELSE SharpeValue(FDiv(BProxy(avg), BProxy(variance)).k, BZERO, BZERO)

\* variant: the annualised mean alone, not divided by the deviation
annualized_mean_only(v) ==
    IF v.k # "fin" THEN BSpecial(v.k) ELSE BMul(v.avg, ToB(Fin(252, 1)))

\* (avg_excess_return * 252.0) / (std_dev * (252.0_f64).sqrt()) as an f64,
\* of a Sharpe value
annualized_sharpe_value(v) ==
    IF v.k # "fin" THEN BSpecial(v.k)
    ELSE BDiv(BMul(v.avg, ToB(Fin(252, 1))),
              BMul(BSqrt(v.variance), BSqrt(ToB(Fin(252, 1)))))

\* the mean of (r - avg_excess_return).powi(2)
variance_of(excess_returns, avg) ==
    LET n == Len(excess_returns)
        squares == [i \in 1..n |->
                       LET dev == BSub(excess_returns[i], avg)
                       IN  BMul(dev, dev)]
    IN  BDiv(sum_f64(squares, n), ToB(Fin(n, 1)))

calculate_sharpe(returns, risk_free_rate) ==
    IF returns = <<>> THEN Err("InsufficientReturnData")
    ELSE LET daily_risk_free_rate == BDiv(ToB(risk_free_rate), ToB(Fin(252, 1)))
             n == Len(returns)
             excess_returns == [i \in 1..n |->
                                   BSub(ToB(returns[i]), daily_risk_free_rate)]
             avg_excess_return == BDiv(sum_f64(excess_returns, n), ToB(Fin(n, 1)))
             variance == variance_of(excess_returns, avg_excess_return)
         IN  \* std_dev == 0.0, std_dev being sqrt(variance)
             IF BEq(variance, BZERO) THEN Err("SharpeCalculationError")
             ELSE [tag |-> "Ok", e |-> "none",
                   v |-> annualized_sharpe(avg_excess_return, variance)]

-----------------------------------------------------------------------------
(* option.rs: the strike-band projector.                                   *)

\* variant: the safety coefficient is 2 in place of 0.02
strike_range_coefficient_2(underlying_price, percentile_drop, ema_drop, dte, period) ==
    LET effective_dte == IF dte > 1 THEN dte ELSE 1
        adjustment_factor == FDiv(Fin(effective_dte, 1), Fin(period, 1))
        adjusted_percentile_drop == FMul(percentile_drop, adjustment_factor)
        adjusted_ema_drop == FMul(ema_drop, adjustment_factor)
        v1 == FMul(underlying_price, FSub(ONE, adjusted_ema_drop))
        v2 == FMul(underlying_price, FSub(ONE, adjusted_percentile_drop))
        min_strike == IF FLt(v1, v2) THEN v1 ELSE v2
        max_strike == IF FLt(v1, v2) THEN v2 ELSE v1
        safety_range ==
            FMul(FAbs(FSub(adjusted_percentile_drop, adjusted_ema_drop)), Fin(2, 1))
        adjusted_max_strike == FMul(max_strike, FSub(ONE, safety_range))
    IN  <<min_strike, adjusted_max_strike>>

\* variant: the days to expiry are used as they are, without dte.max(1)
strike_range_raw_dte(underlying_price, percentile_drop, ema_drop, dte, period) ==
    LET adjustment_factor == FDiv(Fin(dte, 1), Fin(period, 1))
        adjusted_percentile_drop == FMul(percentile_drop, adjustment_factor)
        adjusted_ema_drop == FMul(ema_drop, adjustment_factor)
        v1 == FMul(underlying_price, FSub(ONE, adjusted_ema_drop))
        v2 == FMul(underlying_price, FSub(ONE, adjusted_percentile_drop))
        min_strike == IF FLt(v1, v2) THEN v1 ELSE v2
        max_strike == IF FLt(v1, v2) THEN v2 ELSE v1
        safety_range ==
            FMul(FAbs(FSub(adjusted_percentile_drop, adjusted_ema_drop)), Fin(2, 100))
        adjusted_max_strike == FMul(max_strike, FSub(ONE, safety_range))
    IN  <<min_strike, adjusted_max_strike>>

calculate_adjusted_strike_range(underlying_price, percentile_drop, ema_drop, dte, period) ==
    LET effective_dte == IF dte > 1 THEN dte ELSE 1
        adjustment_factor == FDiv(Fin(effective_dte, 1), Fin(period, 1))
        adjusted_percentile_drop == FMul(percentile_drop, adjustment_factor)
        adjusted_ema_drop == FMul(ema_drop, adjustment_factor)
        v1 == FMul(underlying_price, FSub(ONE, adjusted_ema_drop))
        v2 == FMul(underlying_price, FSub(ONE, adjusted_percentile_drop))
        min_strike == IF FLt(v1, v2) THEN v1 ELSE v2
        max_strike == IF FLt(v1, v2) THEN v2 ELSE v1
        safety_range ==
            FMul(FAbs(FSub(adjusted_percentile_drop, adjusted_ema_drop)), Fin(2, 100))
        adjusted_max_strike == FMul(max_strike, FSub(ONE, safety_range))
    IN  <<min_strike, adjusted_max_strike>>

-----------------------------------------------------------------------------
(* Bounds and input catalogue.                                             *)

Symbols == {"A", "B"}

\* contents of the symbols file
SymbolLists == {<<"A", "B">>}

\* the batch runs a command line executes, in order (main.rs); the drawdown
\* run, maxdrop::calculate_and_save, has no command in main.rs and is run
\* here on its own with its period
Commands == {<<"atr">>, <<"sharpe">>, <<"maxdrop">>, <<"atr", "sharpe">>,
             <<"atr", "maxdrop">>}

\* constants.rs
CANDLE_COUNT == 100
SHARPE_MIN_CANDLES == 10

\* daily candle series the candle table can hold for one symbol
SeriesKinds == {"none", "one", "zig15", "flat20", "big21", "wave25", "zero25"}

SeriesLen(kind) ==
    CASE kind = "none"   -> 0
      [] kind = "one"    -> 1
      [] kind = "zig15"  -> 15
      [] kind = "flat20" -> 20
      [] kind = "big21"  -> 21
      [] OTHER           -> 25

WaveLevel(i) == <<20, 10, 20, 40, 20>>[((i - 1) \div 5) + 1]

\* <<open, high, low, close>> of the i-th daily candle of a series
SeriesPrices(kind, i) ==
    CASE kind = "one"    -> <<10, 12, 9, 11>>
      [] kind = "flat20" -> <<100, 100, 100, 100>>
      [] kind \in {"zig15", "big21"} ->
            IF i % 2 = 1 THEN <<10, 12, 10, 12>> ELSE <<12, 12, 10, 10>>
      [] kind = "zero25" /\ i = 8 -> <<10, 11, 0, 0>>
      [] OTHER ->
            LET L == WaveLevel(i)
                H == (11 * L) \div 10
            IN  IF ((i - 1) % 5) % 2 = 0 THEN <<L, H, L, H>> ELSE <<H, H, L, L>>

SeriesVolume(kind) == IF kind = "big21" THEN U32(16384, 0) ELSE U32(0, 1000)

SeriesCandle(kind, symbol, i) ==
    LET p == SeriesPrices(kind, i)
    IN  Candle(symbol, Fin(p[1], 1), Fin(p[2], 1), Fin(p[3], 1), Fin(p[4], 1),
               SeriesVolume(kind), i)

SeriesRows(kind, symbol) ==
    {SeriesCandle(kind, symbol, i) : i \in 1..SeriesLen(kind)}

\* values of constants::PERCENTILE and of the risk-free rate
PercentileChoices == {Fin(3, 4), Fin(1, 1)}
RiskFreeRates == {Fin(0, 1), Fin(1, 25)}
Periods == {0, 1, 5, 20}

-----------------------------------------------------------------------------
(* State.                                                                  *)

VARIABLES
    overflow_checks,   \* the build panics on integer overflow (debug) or wraps
    PERCENTILE,        \* constants::PERCENTILE
    candle,            \* table candle: set of rows, unique on (symbol, timestamp)
    true_range,        \* table true_range: set of rows, unique on symbol
    max_drop_periods,  \* table max_drop_periods: primary key (symbol, period)
    sharpe_ratio,      \* table sharpe_ratio: unique on symbol
    option_strike,     \* table option_strike: the option chains saved
    pc,                \* "idle" or the batch run in progress
    symbols,           \* the symbol list read by the run
    idx,               \* position of the run's loop in symbols
    period,            \* maxdrop run: its period argument
    risk_free_rate,    \* sharpe run: its risk_free_rate argument
    true_range_vec,    \* atr run: metrics collected so far
    result,            \* how the last run ended: "none", "running", Ok/Err/panic
    outcome,           \* per symbol, what the run in progress did with it
    todo,              \* the runs the command line still has to execute
    fn_in,             \* pure-function checks: the arguments
    fn_out             \* pure-function checks: the value returned

vars == <<overflow_checks, PERCENTILE, candle, true_range, max_drop_periods,
          sharpe_ratio, option_strike, pc, symbols, idx, period, risk_free_rate,
          true_range_vec, result, outcome, todo, fn_in, fn_out>>

tables == <<candle, true_range, max_drop_periods, sharpe_ratio, option_strike>>
config == <<overflow_checks, PERCENTILE>>
fnvars == <<fn_in, fn_out>>

NoOutcome == [s \in Symbols |-> "none"]
NoArgs == [fn |-> "none"]

-----------------------------------------------------------------------------
(* store/candle.rs                                                         *)

\* ORDER BY timestamp DESC LIMIT count
RECURSIVE select_latest(_, _)
select_latest(rows, count) ==
    IF rows = {} \/ count = 0 THEN <<>>
    ELSE LET r == CHOOSE r \in rows : \A q \in rows : q.timestamp <= r.timestamp
         IN  <<r>> \o select_latest(rows \ {r}, count - 1)

reverse(s) == [i \in 1..Len(s) |-> s[Len(s) + 1 - i]]

CandleKey(c) == <<c.symbol, c.timestamp>>

\* variant: a plain INSERT without the unique index, which keeps the old row
insert_candle(tbl, c) == tbl \cup {c}

\* one REPLACE INTO candle; an error of the statement is ignored (a NaN is
\* bound as NULL, which the NOT NULL columns reject)
replace_candle(tbl, c) ==
    IF is_nan(c.open) \/ is_nan(c.high) \/ is_nan(c.low) \/ is_nan(c.close) THEN tbl
    ELSE {r \in tbl : CandleKey(r) # CandleKey(c)} \cup {c}

\* the transaction of save_candles after the first i candles
RECURSIVE save_candles(_, _, _)
save_candles(tbl, candles, i) ==
    IF i = 0 THEN tbl
    ELSE replace_candle(save_candles(tbl, candles, i - 1), candles[i])

get_candles(tbl, symbol, count) ==
    reverse(select_latest({r \in tbl : r.symbol = symbol}, count))

-----------------------------------------------------------------------------
(* store/true_range.rs, store/max_drop.rs, store/sharpe_ratio.rs           *)
(* SQLite binds a NaN as NULL, which the NOT NULL columns reject.          *)

TrueRange(symbol, percentile_range, ema_range, timestamp) ==
    [symbol |-> symbol, percentile_range |-> percentile_range,
     ema_range |-> ema_range, timestamp |-> timestamp]

\* one REPLACE INTO true_range; an error of the statement is ignored
replace_true_range(tbl, tr) ==
    IF is_nan(tr.percentile_range) \/ is_nan(tr.ema_range) THEN tbl
    ELSE {r \in tbl : r.symbol # tr.symbol} \cup {tr}

\* the transaction of save_true_ranges after the first i elements
RECURSIVE save_true_ranges(_, _, _)
save_true_ranges(tbl, true_ranges, i) ==
    IF i = 0 THEN tbl
    ELSE replace_true_range(save_true_ranges(tbl, true_ranges, i - 1), true_ranges[i])

MaxDropRow(symbol, p, percentile_drop, ema_drop, timestamp) ==
    [symbol |-> symbol, period |-> p, percentile_drop |-> percentile_drop,
     ema_drop |-> ema_drop, timestamp |-> timestamp]

\* variant: the row is keyed by the symbol alone
save_max_drop_by_symbol(tbl, symbol, p, percentile_drop, ema_drop, timestamp) ==
    IF is_nan(percentile_drop) \/ is_nan(ema_drop) THEN Err("DatabaseError")
    ELSE [tag |-> "Ok", e |-> "none",
          v |-> {r \in tbl : r.symbol # symbol}
                  \cup {MaxDropRow(symbol, p, percentile_drop, ema_drop, timestamp)}]

\* SELECT percentile_drop, ema_drop ... WHERE symbol = ?1 AND period = ?2,
\* query_row: the first row, or the error QueryReturnedNoRows
get_max_drop(tbl, symbol, p) ==
    LET rows == {r \in tbl : r.symbol = symbol /\ r.period = p}
    IN  IF rows = {} THEN Err("DatabaseError")
        ELSE LET r == CHOOSE r \in rows : TRUE
             IN  [tag |-> "Ok", e |-> "none",
                  v |-> <<r.percentile_drop, r.ema_drop>>]

\* INSERT OR REPLACE INTO max_drop_periods: Ok(new table) or Err
save_max_drop_period(tbl, symbol, p, percentile_drop, ema_drop, timestamp) ==
    IF is_nan(percentile_drop) \/ is_nan(ema_drop) THEN Err("DatabaseError")
    ELSE [tag |-> "Ok", e |-> "none",
          v |-> {r \in tbl : ~(r.symbol = symbol /\ r.period = p)}
                  \cup {MaxDropRow(symbol, p, percentile_drop, ema_drop, timestamp)}]

SharpeRow(symbol, value, timestamp) ==
    [symbol |-> symbol, value |-> value, timestamp |-> timestamp]

\* variant: the table is emptied before the row is inserted
save_sharpe_ratio_only(tbl, symbol, value, timestamp) ==
    IF value.k = "nan" THEN Err("DatabaseError")
    ELSE [tag |-> "Ok", e |-> "none", v |-> {SharpeRow(symbol, value, timestamp)}]

\* REPLACE INTO sharpe_ratio: Ok(new table) or Err
save_sharpe_ratio(tbl, symbol, value, timestamp) ==
    IF value.k = "nan" THEN Err("DatabaseError")
    ELSE [tag |-> "Ok", e |-> "none",
          v |-> {r \in tbl : r.symbol # symbol} \cup {SharpeRow(symbol, value, timestamp)}]

-----------------------------------------------------------------------------
(* atr::calculate_and_save                                                 *)

\* what one iteration of the loop does with the candles of a symbol:
\* "panic", "skip", Err(e) or Ok(TrueRange)
atr_symbol(candles, symbol, checks, pctl) ==
    LET weekly == weekly_candles(candles, symbol, checks)
    IN  IF weekly.tag = "panic" THEN Panic
        ELSE IF Len(weekly.v) < 4 THEN [tag |-> "skip", v |-> NAN, e |-> "none"]
        ELSE LET trs == true_ranges_ratio(weekly.v)
                 ema_atr == exponential_moving_average(trs, 4)
                 percentile_atr == percentile(trs, pctl)
             IN  IF ema_atr.tag = "Err" THEN ema_atr
                 ELSE IF percentile_atr.tag # "Ok" THEN percentile_atr
                 ELSE [tag |-> "Ok", e |-> "none",
                       v |-> TrueRange(symbol, percentile_atr.v, ema_atr.v,
                                       weekly.v[Len(weekly.v)].timestamp)]

\* main: the command line is parsed into the runs to execute
main ==
    /\ pc = "main"
    /\ pc' = "idle"
    /\ todo' \in Commands
    /\ UNCHANGED <<tables, config, fnvars, symbols, idx, period, risk_free_rate,
                   true_range_vec, result, outcome>>

StartRun(kind) ==
    /\ pc = "idle"
    /\ todo # <<>>
    /\ Head(todo) = kind
    /\ todo' = Tail(todo)
    /\ pc' = kind
    /\ symbols' \in SymbolLists
    /\ idx' = 1
    /\ true_range_vec' = <<>>
    /\ result' = "running"
    /\ outcome' = NoOutcome
    /\ UNCHANGED <<tables, config, fnvars>>

\* the run returns to main, which logs its result and goes on, or the
\* process dies of a panic
EndRun(how, sym, what) ==
    /\ pc' = IF how = "panic" THEN "dead" ELSE "idle"
    /\ result' = how
    /\ outcome' = IF sym = "" THEN outcome ELSE [outcome EXCEPT ![sym] = what]
    /\ UNCHANGED idx

NextSymbol(sym, what) ==
    /\ idx' = idx + 1
    /\ outcome' = [outcome EXCEPT ![sym] = what]
    /\ UNCHANGED <<pc, result>>

atr_start ==
    /\ StartRun("atr")
    /\ UNCHANGED <<period, risk_free_rate>>

atr_step ==
    /\ pc = "atr"
    /\ idx <= Len(symbols)
    /\ LET symbol == symbols[idx] IN
       \E fetched \in BOOLEAN :
          IF ~fetched
          THEN /\ EndRun("Err", symbol, "fetch_failed")
               /\ UNCHANGED true_range_vec
          ELSE \E r \in {atr_symbol(get_candles(candle, symbol, CANDLE_COUNT),
                                       symbol, overflow_checks, PERCENTILE)} :
                   CASE r.tag = "panic" ->
                          /\ EndRun("panic", symbol, "panicked")
                          /\ UNCHANGED true_range_vec
                     [] r.tag = "skip" ->
                          /\ NextSymbol(symbol, "skipped")
                          /\ UNCHANGED true_range_vec
                     [] r.tag = "Err" ->
                          /\ EndRun("Err", symbol, "stat_failed")
                          /\ UNCHANGED true_range_vec
                     [] OTHER ->
                          /\ NextSymbol(symbol, "computed")
                          /\ true_range_vec' = Append(true_range_vec, r.v)
    /\ UNCHANGED <<tables, config, fnvars, symbols, period, risk_free_rate, todo>>

\* after the loop: save_true_ranges and return Ok
atr_save ==
    /\ pc = "atr"
    /\ idx > Len(symbols)
    /\ true_range' = save_true_ranges(true_range, true_range_vec, Len(true_range_vec))
    /\ EndRun("Ok", "", "")
    /\ UNCHANGED <<candle, max_drop_periods, sharpe_ratio, option_strike, config,
                   fnvars,
                   symbols, period, risk_free_rate, true_range_vec, todo>>

-----------------------------------------------------------------------------
(* maxdrop::calculate_and_save                                             *)

\* what one iteration does with the non-empty candles of a symbol:
\* "panic" (chunks(0)), "few" (fewer than 2 positive drops), Err(e) from
\* percentile, or Ok(<<percentile_drop, ema_drop, timestamp>>)
maxdrop_symbol(candles, p, pctl) ==
    IF p = 0 THEN Panic
    ELSE LET drops == max_drops(candles, p)
         IN  IF Len(drops) >= 2
             THEN LET ema_window == Min2(5, Len(drops))
                      ema_drop == exponential_moving_average(drops, ema_window)
                      percentile_drop == percentile(drops, pctl)
                  IN  IF percentile_drop.tag # "Ok" THEN percentile_drop
                      ELSE [tag |-> "Ok", e |-> "none",
                            v |-> <<percentile_drop.v, ema_drop.v,
                                    candles[Len(candles)].timestamp>>]
             ELSE [tag |-> "few", v |-> NAN, e |-> "none"]

maxdrop_start ==
    /\ StartRun("maxdrop")
    /\ period' \in Periods
    /\ UNCHANGED risk_free_rate

maxdrop_step ==
    /\ pc = "maxdrop"
    /\ idx <= Len(symbols)
    /\ LET symbol == symbols[idx] IN
       \E fetched \in BOOLEAN, candles \in {get_candles(candle, symbol, CANDLE_COUNT)} :
          IF ~fetched
          THEN /\ NextSymbol(symbol, "fetch_failed")
               /\ UNCHANGED max_drop_periods
          ELSE IF candles = <<>>
          THEN /\ NextSymbol(symbol, "skipped")
               /\ UNCHANGED max_drop_periods
          ELSE \E r \in {maxdrop_symbol(candles, period, PERCENTILE)} :
               \E saved \in {IF r.tag # "Ok" THEN r
                              ELSE save_max_drop_period(max_drop_periods, symbol,
                                       period, r.v[1], r.v[2], r.v[3])} :
                   CASE r.tag = "panic" ->
                          /\ EndRun("panic", symbol, "panicked")
                          /\ UNCHANGED max_drop_periods
                     [] r.tag = "few" ->
                          /\ NextSymbol(symbol, "skipped")
                          /\ UNCHANGED max_drop_periods
                     [] r.tag = "Err" ->
                          /\ EndRun("Err", symbol, "stat_failed")
                          /\ UNCHANGED max_drop_periods
                     [] r.tag = "Ok" /\ saved.tag = "Err" ->
                          /\ EndRun("Err", symbol, "save_failed")
                          /\ UNCHANGED max_drop_periods
                     [] OTHER ->
                          /\ NextSymbol(symbol, "saved")
                          /\ max_drop_periods' = saved.v
    /\ UNCHANGED <<candle, true_range, sharpe_ratio, option_strike, config,
                   fnvars, symbols,
                   period, risk_free_rate, true_range_vec, todo>>

maxdrop_finish ==
    /\ pc = "maxdrop"
    /\ idx > Len(symbols)
    /\ EndRun("Ok", "", "")
    /\ UNCHANGED <<tables, config, fnvars, symbols, period, risk_free_rate,
                   true_range_vec, todo>>

-----------------------------------------------------------------------------
(* sharpe::calculate_and_save                                              *)

\* Err(e) or Ok(<<sharpe, timestamp>>)
sharpe_symbol(candles, rate) ==
    IF Len(candles) < SHARPE_MIN_CANDLES THEN Err("InsufficientReturnData")
    ELSE LET sharpe == calculate_sharpe(calculate_returns(candles), rate)
         IN  IF sharpe.tag = "Err" THEN sharpe
             ELSE [tag |-> "Ok", e |-> "none",
                   v |-> <<sharpe.v, candles[Len(candles)].timestamp>>]

sharpe_start ==
    /\ StartRun("sharpe")
    /\ risk_free_rate' \in RiskFreeRates
    /\ UNCHANGED period

sharpe_step ==
    /\ pc = "sharpe"
    /\ idx <= Len(symbols)
    /\ LET symbol == symbols[idx] IN
       \E fetched \in BOOLEAN :
          IF ~fetched
          THEN /\ EndRun("Err", symbol, "fetch_failed")
               /\ UNCHANGED sharpe_ratio
          ELSE \E r \in {sharpe_symbol(get_candles(candle, symbol, CANDLE_COUNT),
                                          risk_free_rate)} :
               \E saved \in {IF r.tag # "Ok" THEN r
                              ELSE save_sharpe_ratio(sharpe_ratio, symbol,
                                                     r.v[1], r.v[2])} :
                   CASE r.tag = "Err" ->
                          /\ EndRun("Err", symbol, "stat_failed")
                          /\ UNCHANGED sharpe_ratio
                     [] r.tag = "Ok" /\ saved.tag = "Err" ->
                          /\ EndRun("Err", symbol, "save_failed")
                          /\ UNCHANGED sharpe_ratio
                     [] OTHER ->
                          /\ NextSymbol(symbol, "saved")
                          /\ sharpe_ratio' = saved.v
    /\ UNCHANGED <<candle, true_range, max_drop_periods, option_strike, config,
                   fnvars, symbols,
                   period, risk_free_rate, true_range_vec, todo>>

sharpe_finish ==
    /\ pc = "sharpe"
    /\ idx > Len(symbols)
    /\ EndRun("Ok", "", "")
    /\ UNCHANGED <<tables, config, fnvars, symbols, period, risk_free_rate,
                   true_range_vec, todo>>

-----------------------------------------------------------------------------
(* The batch runs against one database.                                    *)

Init ==
    /\ overflow_checks \in BOOLEAN
    /\ PERCENTILE \in PercentileChoices
    /\ \E kinds \in [Symbols -> SeriesKinds] :
          candle = UNION {SeriesRows(kinds[s], s) : s \in Symbols}
    /\ true_range = {}
    /\ max_drop_periods = {}
    /\ sharpe_ratio = {}
    /\ option_strike = {}
    /\ pc = "main"
    /\ todo = <<>>
    /\ symbols = <<>>
    /\ idx = 1
    /\ period = 5
    /\ risk_free_rate = ZERO
    /\ true_range_vec = <<>>
    /\ result = "none"
    /\ outcome = NoOutcome
    /\ fn_in = NoArgs
    /\ fn_out = NoArgs

Next ==
    \/ main
    \/ atr_start
    \/ atr_step
    \/ atr_save
    \/ maxdrop_start
    \/ maxdrop_step
    \/ maxdrop_finish
    \/ sharpe_start
    \/ sharpe_step
    \/ sharpe_finish

Spec == Init /\ [][Next]_vars

-----------------------------------------------------------------------------
(* calculate_adjusted_strike_range applied to bounded arguments.           *)

MaxDte == 3

StrikePrices == {Fin(1, 2), Fin(10, 1), Fin(100, 1)}
DropValues   == {Fin(0, 1), Fin(1, 100), Fin(1, 10), Fin(1, 2), Fin(1, 1),
                 Fin(3, 2), Fin(60, 1)}
StrikePeriods == {1, 5, 20}

Idle ==
    /\ overflow_checks \in BOOLEAN
    /\ PERCENTILE = Fin(3, 4)
    /\ candle = {}
    /\ true_range = {}
    /\ max_drop_periods = {}
    /\ sharpe_ratio = {}
    /\ option_strike = {}
    /\ todo = <<>>
    /\ symbols = <<>>
    /\ idx = 1
    /\ period = 5
    /\ risk_free_rate = ZERO
    /\ true_range_vec = <<>>
    /\ result = "none"
    /\ outcome = NoOutcome

InitStrike ==
    /\ Idle
    /\ overflow_checks = FALSE
    /\ pc = "call"
    /\ fn_in \in [fn : {"calculate_adjusted_strike_range"},
                  underlying_price : StrikePrices,
                  percentile_drop : DropValues,
                  ema_drop : DropValues,
                  dte : 0..MaxDte,
                  period : StrikePeriods]
    /\ fn_out = NoArgs

call_calculate_adjusted_strike_range ==
    /\ pc = "call"
    /\ fn_in.fn = "calculate_adjusted_strike_range"
    /\ pc' = "ret"
    /\ fn_out' = calculate_adjusted_strike_range(fn_in.underlying_price,
                     fn_in.percentile_drop, fn_in.ema_drop, fn_in.dte, fn_in.period)
    /\ UNCHANGED <<tables, config, symbols, idx, period, risk_free_rate,
                   true_range_vec, result, outcome, todo, fn_in>>

NextStrike == call_calculate_adjusted_strike_range

SpecStrike == InitStrike /\ [][NextStrike]_vars

-----------------------------------------------------------------------------
(* The aggregation of atr.rs and calc_atr.rs applied to bounded series.    *)

MaxLen == 11
MaxChunk == 3

\* <<open, high, low, close, volume>> of the candles a series is made of
CandleShapes == {<<10, 12, 9, 11, U32(0, 1000)>>, <<20, 25, 18, 22, U32(16384, 0)>>}

\* the series of the given shapes, with timestamps 1, 2, ...
SeriesOfShapes(shapes) ==
    [i \in 1..Len(shapes) |->
        Candle("A", Fin(shapes[i][1], 1), Fin(shapes[i][2], 1), Fin(shapes[i][3], 1),
               Fin(shapes[i][4], 1), shapes[i][5], i)]

InitResample ==
    /\ Idle
    /\ pc = "call"
    /\ \E n \in 0..MaxLen, k \in 1..MaxChunk :
       \E shapes \in [1..n -> CandleShapes] :
          fn_in = [fn |-> "resample", candles |-> SeriesOfShapes(shapes),
                   chunk_size |-> k]
    /\ fn_out = NoArgs

\* the bars of atr::calculate_and_save and of calc_atr::calculate_and_save for
\* the candles, and the chunks maxdrop::calculate_and_save cuts them into
call_resample ==
    /\ pc = "call"
    /\ fn_in.fn = "resample"
    /\ pc' = "ret"
    /\ fn_out' = [weekly |-> weekly_candles(fn_in.candles, "A", overflow_checks),
                  calc_atr |-> calc_atr_candles(fn_in.candles, "A"),
                  chunks |-> chunks(fn_in.candles, fn_in.chunk_size)]
    /\ UNCHANGED <<tables, config, symbols, idx, period, risk_free_rate,
                   true_range_vec, result, outcome, todo, fn_in>>

NextResample == call_resample

SpecResample == InitResample /\ [][NextResample]_vars

-----------------------------------------------------------------------------
(* Properties of the batch runs.                                           *)

\* the candles a run reads for the symbol, and the 5-day bars made of them
CandlesOf(s) == get_candles(candle, s, CANDLE_COUNT)
BarsOf(s) == Len(chunks(CandlesOf(s), 5))

\* the step taken handles symbol s and gets its candles
Handles(s) ==
    /\ outcome[s] = "none"
    /\ outcome'[s] \notin {"none", "fetch_failed"}

\* C1: in atr::calculate_and_save and maxdrop::calculate_and_save a failure
\* of one symbol does not stop the run: when the run returns, every symbol
\* of the list has been processed, and every symbol whose statistics were
\* computed has its row in the store.
C1_FailureDoesNotStopRun ==
    [][(pc \in {"atr", "maxdrop"} /\ pc' = "idle") =>
         /\ \A i \in 1..Len(symbols) : outcome'[symbols[i]] # "none"
         /\ \A j \in 1..Len(true_range_vec') :
               ~is_nan(true_range_vec'[j].ema_range)
                  /\ ~is_nan(true_range_vec'[j].percentile_range)
               => true_range_vec'[j] \in true_range'
         /\ \A s \in Symbols :
               outcome'[s] = "saved" =>
                  \E r \in max_drop_periods' : r.symbol = s /\ r.period = period]_vars

\* C2: in atr::calculate_and_save a symbol with at least 4 bars gets its
\* EMA and percentile computed and its TrueRange produced, and a symbol with
\* fewer than 4 bars is skipped while the run goes on.
C2_FourBarsSuffice ==
    [][pc = "atr" =>
         \A s \in Symbols :
            Handles(s) /\ outcome'[s] # "panicked" =>
               IF BarsOf(s) >= 4
               THEN /\ outcome'[s] = "computed"
                    /\ true_range_vec' # <<>>
                    /\ true_range_vec'[Len(true_range_vec')].symbol = s
               ELSE /\ outcome'[s] = "skipped"
                    /\ pc' = "atr"]_vars

\* C3: in sharpe::calculate_and_save a symbol with too few candles or with
\* a zero standard deviation of its returns is skipped: the run goes on to
\* the next symbol.
C3_SharpeSkipsSymbol ==
    [][(pc = "sharpe" /\ \E s \in Symbols : Handles(s) /\ outcome'[s] = "stat_failed")
         => pc' = "sharpe" /\ idx' = idx + 1]_vars

\* C4: no metric computed by a division by a zero price is persisted: every
\* row of the metric stores holds finite numbers.
C4_NoMetricFromZeroPrice ==
    /\ \A r \in true_range : is_finite(r.percentile_range) /\ is_finite(r.ema_range)
    /\ \A r \in max_drop_periods : is_finite(r.percentile_drop) /\ is_finite(r.ema_drop)
    /\ \A r \in sharpe_ratio : r.value.k = "fin"

\* 20 candles whose prices are all the same
IsFlat20(cs) ==
    /\ Len(cs) = 20
    /\ \A i \in 1..20 : /\ cs[i].open = cs[1].open
                        /\ cs[i].high = cs[1].open
                        /\ cs[i].low = cs[1].open
                        /\ cs[i].close = cs[1].open

\* C7: for 20 flat candles (4 bars, 3 ratios of 0) atr::calculate_and_save
\* computes the statistics: the TrueRange of the symbol has ema_range = 0 and
\* percentile_range = 0.
C7_FlatSeriesComputed ==
    [][pc = "atr" =>
         \A s \in Symbols :
            Handles(s) /\ IsFlat20(CandlesOf(s)) =>
               /\ outcome'[s] = "computed"
               /\ true_range_vec' # <<>>
               /\ true_range_vec'[Len(true_range_vec')].symbol = s
               /\ true_range_vec'[Len(true_range_vec')].ema_range = ZERO
               /\ true_range_vec'[Len(true_range_vec')].percentile_range = ZERO]_vars

-----------------------------------------------------------------------------
(* Properties of the strike band.                                          *)

StrikeReturned == pc = "ret" /\ fn_in.fn = "calculate_adjusted_strike_range"

\* C5: for a price P > 0, drops pct >= 0 and ema >= 0, D >= 0 days to expiry
\* and a period L >= 1, the band calculate_adjusted_strike_range returns has
\* low <= high, the safety contraction of the upper bound included.
C5_LowNotAboveHigh ==
    StrikeReturned
       /\ FGt(fn_in.underlying_price, ZERO)
       /\ FGe(fn_in.percentile_drop, ZERO) /\ FGe(fn_in.ema_drop, ZERO)
       /\ fn_in.dte >= 0 /\ fn_in.period >= 1
    => FLe(fn_out[1], fn_out[2])

\* the contraction makes the upper bound negative, and low is still below it
C5_Witness ==
    /\ StrikeReturned
    /\ fn_in.percentile_drop = Fin(60, 1)
    /\ fn_in.ema_drop = Fin(1, 10)
    /\ fn_in.dte = 3
    /\ fn_in.period = 1
    /\ FLt(fn_out[2], ZERO)
    /\ FLt(fn_out[1], fn_out[2])

RSub(a, b) == RAdd(a, RNeg(b))
RAbs(a) == <<Abs(a[1]), a[2]>>
RMin(a, b) == IF RLt(b, a) THEN b ELSE a
RMax(a, b) == IF RLt(a, b) THEN b ELSE a

\* the band of the closed form, for the time factor f
BandOf(P, p, e, f) ==
    LET v1 == RMul(P, RSub(<<1, 1>>, RMul(e, f)))
        v2 == RMul(P, RSub(<<1, 1>>, RMul(p, f)))
        c  == <<1, 50>>
        contraction == RSub(<<1, 1>>, RMul(RAbs(RSub(RMul(p, f), RMul(e, f))), c))
    IN  <<FromR(RMin(v1, v2)), FromR(RMul(RMax(v1, v2), contraction))>>

\* C6: calculate_adjusted_strike_range returns low = min(v1, v2) and
\* high = max(v1, v2) * (1 - |pct*f - ema*f| * 0.02), where f = max(D, 1) / L,
\* v1 = P * (1 - ema*f) and v2 = P * (1 - pct*f); so D = 0 gives the band of
\* D = 1, and the contraction changes the upper bound only.
C6_ClosedForm ==
    StrikeReturned =>
       LET P   == ToR(fn_in.underlying_price)
           p == ToR(fn_in.percentile_drop)
           e == ToR(fn_in.ema_drop)
           D   == fn_in.dte
       IN  /\ fn_out = BandOf(P, p, e,
                              Norm(IF D >= 1 THEN D ELSE 1, fn_in.period))
           /\ D = 0 => fn_out = BandOf(P, p, e, Norm(1, fn_in.period))

\* D = 0 and different drops: the band is the contracted band of D = 1
C6_Witness ==
    /\ StrikeReturned
    /\ fn_in.dte = 0
    /\ fn_in.period = 5
    /\ fn_in.underlying_price = Fin(100, 1)
    /\ fn_in.percentile_drop = Fin(1, 2)
    /\ fn_in.ema_drop = Fin(1, 10)
    /\ fn_out[1] = Fin(90, 1)
    /\ fn_out[2] = Fin(61152, 625)
    /\ FLt(fn_out[2], Fin(98, 1))

-----------------------------------------------------------------------------
(* Properties of the aggregation into bars.                                *)

Resampled == pc = "ret" /\ fn_in.fn = "resample"

\* ceil(n / k)
CeilDiv(n, k) == (n + k - 1) \div k

\* the j-th of the consecutive chunks of size k of the series s
ChunkAt(s, k, j) == SubSeq(s, (j - 1) * k + 1, Min2(j * k, Len(s)))

\* C8: n candles cut into chunks of size k give ceil(n / k) chunks, which
\* are consecutive and do not overlap, the last one being the short rest; the
\* aggregations make one bar of each chunk of 5, so no candle is dropped or
\* counted in two bars.
C8_ChunksPartition ==
    Resampled =>
       LET n == Len(fn_in.candles)
           k == fn_in.chunk_size
       IN  /\ Len(fn_out.chunks) = CeilDiv(n, k)
           /\ \A j \in 1..Len(fn_out.chunks) :
                 fn_out.chunks[j] = ChunkAt(fn_in.candles, k, j)
           /\ fn_out.weekly.tag = "Ok" =>
                 /\ Len(fn_out.weekly.v) = CeilDiv(n, 5)
                 /\ \A j \in 1..Len(fn_out.weekly.v) :
                       LET c == ChunkAt(fn_in.candles, 5, j)
                       IN  /\ fn_out.weekly.v[j].timestamp = c[1].timestamp
                           /\ fn_out.weekly.v[j].close = c[Len(c)].close
           /\ Len(fn_out.calc_atr) = CeilDiv(n, 5)
           /\ \A j \in 1..Len(fn_out.calc_atr) :
                 LET c == ChunkAt(fn_in.candles, 5, j)
                 IN  /\ fn_out.calc_atr[j].timestamp = c[1].timestamp
                     /\ fn_out.calc_atr[j].close = c[Len(c)].close

\* 11 candles: 4 chunks of size 3, the last of 2 candles, and 3 bars
C8_Witness ==
    /\ Resampled
    /\ Len(fn_in.candles) = 11
    /\ fn_in.chunk_size = 3
    /\ Len(fn_out.chunks) = 4
    /\ Len(fn_out.chunks[4]) = 2
    /\ fn_out.weekly.tag = "Ok"
    /\ Len(fn_out.weekly.v) = 3
    /\ fn_out.weekly.v[3].timestamp = 11

\* the volumes of a chunk added limb by limb, without a width
RECURSIVE HiTotal(_, _)
HiTotal(c, i) == IF i = 0 THEN 0 ELSE HiTotal(c, i - 1) + c[i].volume[1]
RECURSIVE LoTotal(_, _)
LoTotal(c, i) == IF i = 0 THEN 0 ELSE LoTotal(c, i - 1) + c[i].volume[2]

\* the bar has the volume that is the sum of the volumes of the chunk
HasSumVolume(bar, c) ==
    LET lo == LoTotal(c, Len(c))
        hi == HiTotal(c, Len(c)) + (lo \div Limb)
    IN  hi < Limb /\ bar.volume = U32(hi, lo % Limb)

\* open, high, low, close and timestamp of the bar are those of the chunk
HasChunkPrices(bar, c) ==
    /\ bar.open = c[1].open
    /\ bar.close = c[Len(c)].close
    /\ \A i \in 1..Len(c) : FGe(bar.high, c[i].high) /\ FLe(bar.low, c[i].low)
    /\ \E i \in 1..Len(c) : bar.high = c[i].high
    /\ \E i \in 1..Len(c) : bar.low = c[i].low
    /\ bar.timestamp = c[1].timestamp
    /\ FLe(bar.low, bar.open) /\ FLe(bar.open, bar.high)
    /\ FLe(bar.low, bar.close) /\ FLe(bar.close, bar.high)

Increasing(bars) ==
    \A j \in 1..(Len(bars) - 1) : bars[j].timestamp < bars[j + 1].timestamp

\* C9: every bar of atr.rs and of calc_atr.rs has open = the first open of
\* its chunk, close = the last close, high = the greatest high, low = the
\* least low, volume = the sum of the volumes and timestamp = the first
\* timestamp; so low <= open, close <= high and the timestamps of the bars
\* increase strictly.
C9_BarOfChunk ==
    Resampled =>
       /\ fn_out.weekly.tag = "Ok"
       /\ Increasing(fn_out.weekly.v)
       /\ Increasing(fn_out.calc_atr)
       /\ \A j \in 1..Len(fn_out.weekly.v) :
             /\ HasChunkPrices(fn_out.weekly.v[j], ChunkAt(fn_in.candles, 5, j))
             /\ HasSumVolume(fn_out.weekly.v[j], ChunkAt(fn_in.candles, 5, j))
       /\ \A j \in 1..Len(fn_out.calc_atr) :
             /\ HasChunkPrices(fn_out.calc_atr[j], ChunkAt(fn_in.candles, 5, j))
             /\ HasSumVolume(fn_out.calc_atr[j], ChunkAt(fn_in.candles, 5, j))

-----------------------------------------------------------------------------
(* true_ranges_ratio applied to bounded series of bars.                    *)

MaxBars == 4

\* <<high, low, close>> of the bars a series is made of: positive prices,
\* low <= close <= high
BarShapes == {<<12, 9, 11>>, <<25, 18, 22>>, <<10, 10, 10>>, <<30, 5, 5>>}

BarsOfShapes(shapes) ==
    [i \in 1..Len(shapes) |->
        Candle("A", Fin(shapes[i][3], 1), Fin(shapes[i][1], 1), Fin(shapes[i][2], 1),
               Fin(shapes[i][3], 1), U32(0, 0), i)]

InitRatio ==
    /\ Idle
    /\ overflow_checks = FALSE
    /\ pc = "call"
    /\ \E n \in 0..MaxBars :
       \E shapes \in [1..n -> BarShapes] :
          fn_in = [fn |-> "true_ranges_ratio", candles |-> BarsOfShapes(shapes)]
    /\ fn_out = NoArgs

call_true_ranges_ratio ==
    /\ pc = "call"
    /\ fn_in.fn = "true_ranges_ratio"
    /\ pc' = "ret"
    /\ fn_out' = true_ranges_ratio(fn_in.candles)
    /\ UNCHANGED <<tables, config, symbols, idx, period, risk_free_rate,
                   true_range_vec, result, outcome, todo, fn_in>>

NextRatio == call_true_ranges_ratio

SpecRatio == InitRatio /\ [][NextRatio]_vars

\* (high - low) / low of a bar, as a rational
OwnRange(bar) == RMul(RSub(ToR(bar.high), ToR(bar.low)), RInv(ToR(bar.low)))

\* C11: for consecutive bars with positive prices and low <= high the ratio
\* true_range_ratio computes is >= (high - low) / low of the current bar and
\* >= 0, and n >= 1 bars give exactly n - 1 ratios.
C11_RatioAtLeastOwnRange ==
    pc = "ret" /\ fn_in.fn = "true_ranges_ratio" =>
       LET n == Len(fn_in.candles)
       IN  /\ n >= 1 => Len(fn_out) = n - 1
           /\ n = 0 => Len(fn_out) = 0
           /\ \A i \in 1..Len(fn_out) :
                 /\ is_finite(fn_out[i])
                 /\ ~RLt(ToR(fn_out[i]), OwnRange(fn_in.candles[i + 1]))
                 /\ ~RLt(ToR(fn_out[i]), <<0, 1>>)

\* 4 bars, 3 ratios; the second bar opens far above the close of the first,
\* so its ratio 4 is above its own range 7/18
C11_Witness ==
    /\ pc = "ret"
    /\ fn_in.fn = "true_ranges_ratio"
    /\ Len(fn_in.candles) = 4
    /\ Len(fn_out) = 3
    /\ fn_in.candles[1].close = Fin(5, 1)
    /\ fn_in.candles[2].high = Fin(25, 1)
    /\ fn_out[1] = Fin(4, 1)
    /\ OwnRange(fn_in.candles[2]) = <<7, 18>>

-----------------------------------------------------------------------------
(* exponential_moving_average of atr.rs and of calc_atr.rs applied to      *)
(* bounded series.                                                         *)

MaxSeries == 5
MaxPeriod == 5

\* values of a series: f64 numbers
EmaValues == {ZERO, Fin(131, 32), Fin(3, 1)}

InitEma ==
    /\ Idle
    /\ overflow_checks = FALSE
    /\ pc = "call"
    /\ \E n \in 0..MaxSeries, p \in 0..MaxPeriod :
       \E array \in [1..n -> EmaValues] :
          fn_in = [fn |-> "exponential_moving_average", array |-> array, period |-> p]
    /\ fn_out = NoArgs

call_exponential_moving_average ==
    /\ pc = "call"
    /\ fn_in.fn = "exponential_moving_average"
    /\ pc' = "ret"
    /\ fn_out' = [atr |-> exponential_moving_average(fn_in.array, fn_in.period),
                  calc_atr |-> calc_atr_exponential_moving_average(fn_in.array,
                                                                   fn_in.period)]
    /\ UNCHANGED <<tables, config, symbols, idx, period, risk_free_rate,
                   true_range_vec, result, outcome, todo, fn_in>>

NextEma == call_exponential_moving_average

SpecEma == InitEma /\ [][NextEma]_vars

EmaReturned == pc = "ret" /\ fn_in.fn = "exponential_moving_average"

IsConstant(array) == \A i \in 1..Len(array) : array[i] = array[1]

\* C12: the EMA is seeded with the first element and folds the others, so
\* for a constant series [c, ..., c] and a period from 1 to the length of
\* the series exponential_moving_average, of atr.rs and of calc_atr.rs,
\* returns exactly c.
C12_ConstantSeries ==
    EmaReturned /\ fn_in.array # <<>> /\ IsConstant(fn_in.array)
       /\ fn_in.period >= 1 /\ fn_in.period <= Len(fn_in.array)
    => /\ fn_out.atr = Ok(fn_in.array[1])
       /\ fn_out.calc_atr = Ok(fn_in.array[1])

\* C13: for a period >= 1, exponential_moving_average succeeds for a series
\* at least as long as the period, a series exactly as long included, and
\* returns the error NotEnoughCandlesForStatistics and no value for a
\* shorter series, a series one shorter included.
C13_LengthAgainstPeriod ==
    EmaReturned /\ fn_in.period >= 1 =>
       IF Len(fn_in.array) >= fn_in.period
       THEN fn_out.atr.tag = "Ok" /\ fn_out.atr.e = "none"
       ELSE fn_out.atr = Err("NotEnoughCandlesForStatistics")

\* a series of 4 values with period 4 succeeds
C13_Witness ==
    /\ EmaReturned
    /\ fn_in.period = 4
    /\ Len(fn_in.array) = 4
    /\ fn_in.array[1] = Fin(3, 1)
    /\ fn_in.array[4] = ZERO
    /\ fn_out.atr.tag = "Ok"
    /\ is_finite(fn_out.atr.v)

-----------------------------------------------------------------------------
(* percentile of atr.rs and of calc_atr.rs applied to bounded series.      *)

MaxValues == 3

PercentileValues == {Fin(1, 1), Fin(2, 1), Fin(5, 2), INF, NAN}

PercentileArgs ==
    {Fin(-1, 4), ZERO, Fin(1, 4), Fin(1, 2), Fin(3, 4), ONE, Fin(5, 4)}

InitPercentile ==
    /\ Idle
    /\ overflow_checks = FALSE
    /\ pc = "call"
    /\ \E n \in 0..MaxValues, p \in PercentileArgs :
       \E values \in [1..n -> PercentileValues] :
          fn_in = [fn |-> "percentile", values |-> values, percentile |-> p]
    /\ fn_out = NoArgs

call_percentile ==
    /\ pc = "call"
    /\ fn_in.fn = "percentile"
    /\ pc' = "ret"
    /\ fn_out' = [atr |-> percentile(fn_in.values, fn_in.percentile),
                  calc_atr |-> calc_atr_percentile(fn_in.values, fn_in.percentile)]
    /\ UNCHANGED <<tables, config, symbols, idx, period, risk_free_rate,
                   true_range_vec, result, outcome, todo, fn_in>>

NextPercentile == call_percentile

SpecPercentile == InitPercentile /\ [][NextPercentile]_vars

PercentileReturned == pc = "ret" /\ fn_in.fn = "percentile"

AllFinite(values) == \A i \in 1..Len(values) : is_finite(values[i])

InUnitInterval(p) == FLe(ZERO, p) /\ FLe(p, ONE)

SeriesMin(values) ==
    CHOOSE x \in {values[i] : i \in 1..Len(values)} :
       \A i \in 1..Len(values) : FLe(x, values[i])

SeriesMax(values) ==
    CHOOSE x \in {values[i] : i \in 1..Len(values)} :
       \A i \in 1..Len(values) : FLe(values[i], x)

\* C14: for a non-empty series of numbers, percentile(series, 0) is the
\* minimum of the series and percentile(series, 1) its maximum; for a series
\* of one element it is that element for every p in [0, 1].
C14_EndsAndSingle ==
    PercentileReturned /\ fn_in.values # <<>> /\ AllFinite(fn_in.values) =>
       /\ fn_in.percentile = ZERO => fn_out.atr = Ok(SeriesMin(fn_in.values))
       /\ fn_in.percentile = ONE => fn_out.atr = Ok(SeriesMax(fn_in.values))
       /\ Len(fn_in.values) = 1 /\ InUnitInterval(fn_in.percentile)
             => fn_out.atr = Ok(fn_in.values[1])

\* the maximum of an unsorted series of three
C14_Witness ==
    /\ PercentileReturned
    /\ fn_in.values = <<Fin(5, 2), Fin(1, 1), Fin(2, 1)>>
    /\ fn_in.percentile = ONE
    /\ fn_out.atr = Ok(Fin(5, 2))

\* the value between the two order statistics that bracket idx = p * (n - 1)
Interpolation(values, p) ==
    LET n      == Len(values)
        sorted == sort_by(values, n)
        index  == RMul(ToR(p), <<n - 1, 1>>)
        lower  == index[1] \div index[2]
        upper  == IF lower * index[2] = index[1] THEN lower ELSE lower + 1
        w      == RAdd(index, <<-lower, 1>>)
    IN  [lower |-> lower, upper |-> upper,
         v |-> FromR(RAdd(RMul(ToR(sorted[lower + 1]), RAdd(<<1, 1>>, RNeg(w))),
                          RMul(ToR(sorted[upper + 1]), w)))]

\* C15: for a non-empty series of numbers and p in [0, 1], percentile, of
\* atr.rs and of calc_atr.rs, does not panic and reads no element outside
\* the sorted series: with idx = p * (n - 1) the two indexes are in
\* [0, n - 1] and the result is the linear interpolation between them.
C15_NoPanicInterpolates ==
    PercentileReturned /\ fn_in.values # <<>> /\ AllFinite(fn_in.values)
       /\ InUnitInterval(fn_in.percentile)
    => LET i == Interpolation(fn_in.values, fn_in.percentile)
       IN  /\ i.lower \in 0..(Len(fn_in.values) - 1)
           /\ i.upper \in 0..(Len(fn_in.values) - 1)
           /\ fn_out.atr = Ok(i.v)
           /\ fn_out.calc_atr = Ok(i.v)

\* C16: an invalid parameter, here a percentile outside [0, 1], fails with
\* an invalid-parameter error that is not the error of insufficient data,
\* without a panic and without a value.
C16_InvalidParameterError ==
    PercentileReturned /\ fn_in.values # <<>>
       /\ ~InUnitInterval(fn_in.percentile)
    => /\ fn_out.atr.tag = "Err"
       /\ fn_out.atr.e # "NotEnoughCandlesForStatistics"

-----------------------------------------------------------------------------
(* calculate_max_drop of maxdrop.rs applied to the windows of bounded      *)
(* candle series with positive prices.                                     *)

MaxCandles == 4

\* <<high, low, close>> of a candle
DropShapes == {<<12, 9, 11>>, <<10, 10, 10>>, <<20, 5, 6>>, <<8, 6, 7>>}

InitMaxDrop ==
    /\ Idle
    /\ overflow_checks = FALSE
    /\ pc = "call"
    /\ \E n \in 0..MaxCandles :
       \E shapes \in [1..n -> DropShapes] :
          fn_in = [fn |-> "calculate_max_drop", candles |-> BarsOfShapes(shapes)]
    /\ fn_out = NoArgs

\* drop[s][j]: calculate_max_drop of the window of candles s..j;
\* peak[i]: the peak after candle i of the whole series
call_calculate_max_drop ==
    /\ pc = "call"
    /\ fn_in.fn = "calculate_max_drop"
    /\ pc' = "ret"
    /\ LET n == Len(fn_in.candles)
       IN  fn_out' = [drop |-> [s \in 1..n |-> [j \in s..n |->
                                  calculate_max_drop(SubSeq(fn_in.candles, s, j))]],
                      peak |-> [i \in 1..n |-> max_drop_loop(fn_in.candles, i).peak],
                      empty |-> calculate_max_drop(<<>>)]
    /\ UNCHANGED <<tables, config, symbols, idx, period, risk_free_rate,
                   true_range_vec, result, outcome, todo, fn_in>>

NextMaxDrop == call_calculate_max_drop

SpecMaxDrop == InitMaxDrop /\ [][NextMaxDrop]_vars

MaxDropReturned == pc = "ret" /\ fn_in.fn = "calculate_max_drop"

SetMax(S) == CHOOSE x \in S : \A y \in S : ~RLt(x, y)
SetMin(S) == CHOOSE x \in S : \A y \in S : ~RLt(y, x)

\* the highest high of candles 1..i
RunningPeak(candles, i) == SetMax({ToR(candles[k].high) : k \in 1..i})

\* the lowest low of the candles
Trough(candles) == SetMin({ToR(candles[k].low) : k \in 1..Len(candles)})

\* the largest, over the candles from the given one on, of the running peak
\* less the candle's low; 0 when there is no such candle
LargestDrop(candles, from) ==
    SetMax({<<0, 1>>} \cup
           {RSub(RunningPeak(candles, i), ToR(candles[i].low)) :
               i \in from..Len(candles)})

PeakNeverDecreases ==
    \A i \in 1..(Len(fn_in.candles) - 1) : FLe(fn_out.peak[i], fn_out.peak[i + 1])

\* C17 as stated: for a non-empty chunk calculate_max_drop returns D / T,
\* T the lowest low of the chunk and D the largest, over every candle of the
\* chunk, the first included, of the running highest high less the candle's
\* low; the running peak never decreases.
C17_DropOverEveryCandle ==
    MaxDropReturned =>
       /\ \A s \in 1..Len(fn_in.candles) : \A j \in s..Len(fn_in.candles) :
             LET chunk == SubSeq(fn_in.candles, s, j)
             IN  fn_out.drop[s][j] =
                    FromR(RMul(LargestDrop(chunk, 1), RInv(Trough(chunk))))
       /\ PeakNeverDecreases

\* C17: for a non-empty chunk calculate_max_drop returns D / T, T the lowest
\* low of the chunk and D the largest, over the candles after the first, of
\* the running highest high (the first candle's included) less the candle's
\* low, and 0 for a chunk of one candle; the running peak never decreases.
C17_DropAfterFirstCandle ==
    MaxDropReturned =>
       /\ \A s \in 1..Len(fn_in.candles) : \A j \in s..Len(fn_in.candles) :
             LET chunk == SubSeq(fn_in.candles, s, j)
             IN  fn_out.drop[s][j] =
                    FromR(RMul(LargestDrop(chunk, 2), RInv(Trough(chunk))))
       /\ PeakNeverDecreases

\* the drop inside the first candle (12 - 9) is not counted: the result is
\* (12 - 6) / 6, then a chunk of one candle gives 0
C17_Witness ==
    /\ MaxDropReturned
    /\ Len(fn_in.candles) = 2
    /\ fn_in.candles[1].high = Fin(12, 1) /\ fn_in.candles[1].low = Fin(9, 1)
    /\ fn_in.candles[2].high = Fin(8, 1) /\ fn_in.candles[2].low = Fin(6, 1)
    /\ fn_out.drop[1][2] = ONE
    /\ fn_out.drop[1][1] = ZERO
    /\ fn_out.peak = <<Fin(12, 1), Fin(12, 1)>>

\* C18: for a candle series with positive prices and every start index, the
\* max-drop ratio of the window [start, start + j] is less than or equal to
\* that of the window [start, start + j + 1].
C18_LongerWindowNoSmaller ==
    MaxDropReturned =>
       \A s \in 1..Len(fn_in.candles) : \A j \in s..(Len(fn_in.candles) - 1) :
          FLe(fn_out.drop[s][j], fn_out.drop[s][j + 1])

\* a window that grows by a candle with a lower low, then by one that adds
\* nothing
C18_Witness ==
    /\ MaxDropReturned
    /\ Len(fn_in.candles) = 4
    /\ FLt(fn_out.drop[2][3], fn_out.drop[2][4])
    /\ fn_out.drop[1][2] = fn_out.drop[1][3]
    /\ FGt(fn_out.drop[1][2], ZERO)

-----------------------------------------------------------------------------
(* The drawdown run, maxdrop::calculate_and_save, in the program's runs.   *)

\* the max-drop ratios of the chunks of a symbol's candles, those that are
\* exactly 0 left out
RatiosKept(s) ==
    LET cs     == chunks(CandlesOf(s), period)
        ratios == [j \in 1..Len(cs) |-> calculate_max_drop(cs[j])]
    IN  SelectSeq(ratios, LAMBDA x : x # ZERO)

\* C19: in a drawdown run the chunks whose max-drop ratio is exactly 0 are
\* removed; when at least 2 ratios remain, the EMA is taken with the window
\* min(5, number of ratios) and does not fail, and one DropMetric is saved
\* for (symbol, period); when fewer than 2 remain nothing is saved for the
\* symbol and the run goes on without error.
C19_DrawdownRun ==
    [][pc = "maxdrop" /\ period >= 1 =>
         \A s \in Symbols :
            Handles(s) /\ CandlesOf(s) # <<>> =>
               LET kept == RatiosKept(s)
               IN  IF Len(kept) >= 2
                   THEN LET e == exponential_moving_average(kept, Min2(5, Len(kept)))
                        IN  /\ e.tag = "Ok"
                            /\ outcome'[s] = "saved"
                            /\ \E r \in max_drop_periods' :
                                  /\ r.symbol = s /\ r.period = period
                                  /\ r.ema_drop = e.v
                                  /\ \A q \in max_drop_periods' :
                                        q.symbol = s /\ q.period = period => q = r
                   ELSE /\ outcome'[s] = "skipped"
                        /\ max_drop_periods' = max_drop_periods
                        /\ result' = "running"]_vars

-----------------------------------------------------------------------------
(* calculate_returns and calculate_sharpe of sharpe.rs applied to bounded  *)
(* close series.                                                           *)

MaxCloses == 5

ClosePrices == {100, 110, 121}

SharpeRates == {ZERO, Fin(1, 25), Fin(3, 100)}

ClosesOf(prices) ==
    [i \in 1..Len(prices) |->
        Candle("A", Fin(prices[i], 1), Fin(prices[i], 1), Fin(prices[i], 1),
               Fin(prices[i], 1), U32(0, 0), i)]

InitSharpe ==
    /\ Idle
    /\ overflow_checks = FALSE
    /\ pc = "call"
    /\ \E n \in 2..MaxCloses, rate \in SharpeRates :
       \E prices \in [1..n -> ClosePrices] :
          fn_in = [fn |-> "calculate_sharpe", candles |-> ClosesOf(prices),
                   risk_free_rate |-> rate]
    /\ fn_out = NoArgs

call_calculate_sharpe ==
    /\ pc = "call"
    /\ fn_in.fn = "calculate_sharpe"
    /\ pc' = "ret"
    /\ \E returns \in {calculate_returns(fn_in.candles)} :
          fn_out' = [returns |-> returns,
                     sharpe |-> calculate_sharpe(returns, fn_in.risk_free_rate)]
    /\ UNCHANGED <<tables, config, symbols, idx, period, risk_free_rate,
                   true_range_vec, result, outcome, todo, fn_in>>

NextSharpe == call_calculate_sharpe

SpecSharpe == InitSharpe /\ [][NextSharpe]_vars

SharpeReturned == pc = "ret" /\ fn_in.fn = "calculate_sharpe"

\* C20: calculate_sharpe returns the error of a zero standard deviation, and
\* no ratio, exactly when all the period returns are equal, which is the
\* case of every flat close series and of every series growing by the same
\* rate each day; for every other non-empty return series it returns a
\* finite value.
C20_DegenerateExactlyWhenEqual ==
    SharpeReturned /\ fn_out.returns # <<>> =>
       IF IsConstant(fn_out.returns)
       THEN fn_out.sharpe = Err("SharpeCalculationError")
       ELSE fn_out.sharpe.tag = "Ok" /\ fn_out.sharpe.v.k = "fin"

-----------------------------------------------------------------------------
(* calculate_sharpe of sharpe.rs applied to a return series, to the series *)
(* scaled by a factor and to the series shifted by a constant.             *)

MaxReturns == 4

ReturnValues == {Fin(1, 8), Fin(-1, 4), Fin(3, 16)}

ScaleFactors == {2, 3}

\* annual risk-free rates: 0, and 15.75, a daily rate of 1/16, of the size
\* of the returns above
ScaleRates == {ZERO, Fin(63, 4)}

ReturnShift == Fin(1, 8)

InitScale ==
    /\ Idle
    /\ overflow_checks = FALSE
    /\ pc = "call"
    /\ \E n \in 1..MaxReturns, rate \in ScaleRates, k \in ScaleFactors :
       \E returns \in [1..n -> ReturnValues] :
          fn_in = [fn |-> "calculate_sharpe_scaled", returns |-> returns,
                   risk_free_rate |-> rate, k |-> k]
    /\ fn_out = NoArgs

\* the f64 result of calculate_sharpe
SharpeOf(returns, rate) ==
    LET r == calculate_sharpe(returns, rate)
    IN  IF r.tag = "Ok" THEN [tag |-> "Ok", v |-> annualized_sharpe_value(r.v)]
        ELSE [tag |-> r.tag, v |-> BSpecial("nan")]

call_calculate_sharpe_scaled ==
    /\ pc = "call"
    /\ fn_in.fn = "calculate_sharpe_scaled"
    /\ pc' = "ret"
    /\ LET n == Len(fn_in.returns)
       IN  fn_out' =
             [base    |-> SharpeOf(fn_in.returns, fn_in.risk_free_rate),
              scaled  |-> SharpeOf([i \in 1..n |->
                                       FMul(fn_in.returns[i], Fin(fn_in.k, 1))],
                                   fn_in.risk_free_rate),
              shifted |-> SharpeOf([i \in 1..n |->
                                       FAdd(fn_in.returns[i], ReturnShift)],
                                   fn_in.risk_free_rate)]
    /\ UNCHANGED <<tables, config, symbols, idx, period, risk_free_rate,
                   true_range_vec, result, outcome, todo, fn_in>>

NextScale == call_calculate_sharpe_scaled

SpecScale == InitScale /\ [][NextScale]_vars

ScaleReturned == pc = "ret" /\ fn_in.fn = "calculate_sharpe_scaled"

-----------------------------------------------------------------------------
(* calculate_returns then calculate_sharpe on close series that rise by 1% *)
(* per day.                                                                *)

MaxDays == 10

StartPrices == {50, 64, 80, 100, 110, 120, 150, 200, 210, 250}

\* the f64 closes start, start * 1.01, ..., each the rounded product of the
\* close before by the f64 nearest to 1.01
RECURSIVE RisingClose(_, _)
RisingClose(start, day) ==
    IF day = 0 THEN ToB(Fin(start, 1))
    ELSE CHOOSE c \in {BMul(prev, ToB(Fin(101, 100))) :
                          prev \in {RisingClose(start, day - 1)}} : TRUE

RisingCandles(start, days) ==
    [i \in 1..(days + 1) |->
        LET c == FromB(RisingClose(start, i - 1))
        IN  Candle("A", c, c, c, c, U32(0, 0), i)]

InitRising ==
    /\ Idle
    /\ overflow_checks = FALSE
    /\ pc = "call"
    /\ \E start \in StartPrices, days \in 1..MaxDays :
          fn_in = [fn |-> "sharpe_of_rising", start |-> start, days |-> days,
                   candles |-> RisingCandles(start, days)]
    /\ fn_out = NoArgs

call_sharpe_of_rising ==
    /\ pc = "call"
    /\ fn_in.fn = "sharpe_of_rising"
    /\ pc' = "ret"
    /\ \E returns \in {calculate_returns(fn_in.candles)} :
          fn_out' = [returns |-> returns, sharpe |-> SharpeOf(returns, ZERO)]
    /\ UNCHANGED <<tables, config, symbols, idx, period, risk_free_rate,
                   true_range_vec, result, outcome, todo, fn_in>>

NextRising == call_sharpe_of_rising

SpecRising == InitRising /\ [][NextRising]_vars

RisingReturned == pc = "ret" /\ fn_in.fn = "sharpe_of_rising"

\* C22: for a close series that rises by 1% per day over 10 days and the
\* risk-free rate 0, calculate_returns then calculate_sharpe succeeds and
\* returns a finite, positive ratio.
C22_RisingSeriesPositive ==
    RisingReturned /\ fn_in.days = 10 =>
       /\ Len(fn_out.returns) = 10
       /\ fn_out.sharpe.tag = "Ok"
       /\ fn_out.sharpe.v.k = "fin"
       /\ fn_out.sharpe.v.m > 0

\* the series from 100 over 10 days
C22_Witness ==
    /\ RisingReturned
    /\ fn_in.start = 100
    /\ fn_in.days = 10
    /\ FGt(fn_in.candles[11].close, fn_in.candles[1].close)
    /\ fn_out.sharpe.tag = "Ok"
    /\ fn_out.sharpe.v.m > 0

-----------------------------------------------------------------------------
(* store/max_drop.rs: sequences of save_max_drop_period and get_max_drop   *)
(* calls on the table max_drop_periods.                                    *)

StorePeriods == {5, 20}
StoreDrops == {Fin(1, 10), Fin(1, 5), NAN}
StoreTimestamps == {1, 2}

InitDropStore ==
    /\ Idle
    /\ overflow_checks = FALSE
    /\ pc = "store"
    /\ fn_in = NoArgs
    /\ fn_out = NoArgs

call_save_max_drop_period ==
    /\ pc = "store"
    /\ \E s \in Symbols, p \in StorePeriods, pd \in StoreDrops,
          ed \in {Fin(1, 10), NAN}, ts \in StoreTimestamps :
          /\ fn_in' = [fn |-> "save_max_drop_period", symbol |-> s, period |-> p,
                       percentile_drop |-> pd, ema_drop |-> ed, timestamp |-> ts]
          /\ \E r \in {save_max_drop_period(max_drop_periods, s, p, pd, ed, ts)} :
                /\ fn_out' = [tag |-> r.tag]
                /\ max_drop_periods' = IF r.tag = "Ok" THEN r.v ELSE max_drop_periods
    /\ UNCHANGED <<candle, true_range, sharpe_ratio, option_strike, config, pc,
                   symbols, idx,
                   period, risk_free_rate, true_range_vec, result, outcome, todo>>

call_get_max_drop ==
    /\ pc = "store"
    /\ \E s \in Symbols, p \in StorePeriods :
          /\ fn_in' = [fn |-> "get_max_drop", symbol |-> s, period |-> p]
          /\ fn_out' = get_max_drop(max_drop_periods, s, p)
    /\ UNCHANGED <<tables, config, pc, symbols, idx, period, risk_free_rate,
                   true_range_vec, result, outcome, todo>>

NextDropStore == call_save_max_drop_period \/ call_get_max_drop

SpecDropStore == InitDropStore /\ [][NextDropStore]_vars

DropKey(r) == <<r.symbol, r.period>>

\* C23: after any sequence of save_max_drop_period calls the table holds at
\* most one row per (symbol, period); a save that succeeds for (s, p) makes
\* get_max_drop(s, p) return the pair just saved and leaves every row of
\* another symbol or another period as it was, so that several periods of
\* one symbol coexist; a get_max_drop changes nothing.
C23_OneRowPerSymbolAndPeriod ==
    [][/\ \A r, q \in max_drop_periods' : DropKey(r) = DropKey(q) => r = q
       /\ fn_in'.fn = "save_max_drop_period" /\ fn_out'.tag = "Ok" =>
             /\ get_max_drop(max_drop_periods', fn_in'.symbol, fn_in'.period)
                   = Ok(<<fn_in'.percentile_drop, fn_in'.ema_drop>>)
             /\ \E r \in max_drop_periods' :
                   /\ DropKey(r) = <<fn_in'.symbol, fn_in'.period>>
                   /\ r.timestamp = fn_in'.timestamp
             /\ {r \in max_drop_periods' :
                    DropKey(r) # <<fn_in'.symbol, fn_in'.period>>}
                   = {r \in max_drop_periods :
                        DropKey(r) # <<fn_in'.symbol, fn_in'.period>>}
       /\ fn_in'.fn = "save_max_drop_period" /\ fn_out'.tag # "Ok" =>
             max_drop_periods' = max_drop_periods
       /\ fn_in'.fn = "get_max_drop" =>
             /\ max_drop_periods' = max_drop_periods
             /\ fn_out' = get_max_drop(max_drop_periods, fn_in'.symbol,
                                       fn_in'.period)]_vars

\* two periods of the symbol A coexist and the pair of (A, 20) is returned
C23_Witness ==
    /\ pc = "store"
    /\ fn_in.fn = "get_max_drop"
    /\ fn_in.symbol = "A" /\ fn_in.period = 20
    /\ fn_out = Ok(<<Fin(1, 5), Fin(1, 10)>>)
    /\ MaxDropRow("A", 5, Fin(1, 10), Fin(1, 10), 1) \in max_drop_periods
    /\ MaxDropRow("A", 20, Fin(1, 5), Fin(1, 10), 2) \in max_drop_periods
    /\ Cardinality(max_drop_periods) = 3

-----------------------------------------------------------------------------
(* The values persisted by the range-metrics and drawdown runs.            *)

\* the stored candles of a symbol have positive prices, with the open and
\* the close between the low and the high
WellFormedCandles(s) ==
    \A c \in {r \in candle : r.symbol = s} :
       /\ FGt(c.low, ZERO)
       /\ FLe(c.low, c.open) /\ FLe(c.open, c.high)
       /\ FLe(c.low, c.close) /\ FLe(c.close, c.high)

\* C24: for candles with positive prices and low <= open, close <= high,
\* every persisted percentile_range, ema_range, percentile_drop and ema_drop
\* is >= 0, with the EMA period 4 for the ranges and min(5, count) for the
\* drops and the percentile thresholds of the configuration.
C24_PersistedNonNegative ==
    /\ \A r \in true_range :
          WellFormedCandles(r.symbol) =>
             FGe(r.percentile_range, ZERO) /\ FGe(r.ema_range, ZERO)
    /\ \A r \in max_drop_periods :
          WellFormedCandles(r.symbol) =>
             FGe(r.percentile_drop, ZERO) /\ FGe(r.ema_drop, ZERO)

\* both tables hold a row of a symbol with well-formed candles
C24_Witness ==
    \E s \in Symbols :
       /\ WellFormedCandles(s)
       /\ \E r \in true_range :
             r.symbol = s /\ FGt(r.percentile_range, ZERO) /\ FGt(r.ema_range, ZERO)
       /\ \E r \in max_drop_periods :
             r.symbol = s /\ FGt(r.percentile_drop, ZERO) /\ FGt(r.ema_drop, ZERO)

-----------------------------------------------------------------------------
(* option.rs: get_expiration_date. A date is a day number, day 0 being a   *)
(* Monday; the time of day is noon and plays no part.                      *)

MaxDay == 69

Weekdays == <<"Mon", "Tue", "Wed", "Thu", "Fri", "Sat", "Sun">>

weekday(date) == Weekdays[(date % 7) + 1]

get_expiration_date(now, timeframe) ==
    IF timeframe = "Short"
    THEN CASE weekday(now) = "Mon" -> now + 5
           [] weekday(now) = "Tue" -> now + 4
           [] weekday(now) = "Wed" -> now + (3 + 7)
           [] weekday(now) = "Thu" -> now + (2 + 7)
           [] weekday(now) = "Fri" -> now + (1 + 7)
           [] weekday(now) = "Sat" -> now + 7
           [] weekday(now) = "Sun" -> now + 6
    ELSE CASE weekday(now) = "Mon" -> now + (5 + 3 * 7)
           [] weekday(now) = "Tue" -> now + (4 + 3 * 7)
           [] weekday(now) = "Wed" -> now + (3 + 4 * 7)
           [] weekday(now) = "Thu" -> now + (2 + 4 * 7)
           [] weekday(now) = "Fri" -> now + (1 + 4 * 7)
           [] weekday(now) = "Sat" -> now + (0 + 4 * 7)
           [] weekday(now) = "Sun" -> now + (4 * 7 - 1)

InitExpiry ==
    /\ Idle
    /\ overflow_checks = FALSE
    /\ pc = "call"
    /\ \E now \in 0..MaxDay, timeframe \in {"Short", "Medium"} :
          fn_in = [fn |-> "get_expiration_date", now |-> now,
                   timeframe |-> timeframe]
    /\ fn_out = NoArgs

call_get_expiration_date ==
    /\ pc = "call"
    /\ fn_in.fn = "get_expiration_date"
    /\ pc' = "ret"
    /\ fn_out' = [date |-> get_expiration_date(fn_in.now, fn_in.timeframe)]
    /\ UNCHANGED <<tables, config, symbols, idx, period, risk_free_rate,
                   true_range_vec, result, outcome, todo, fn_in>>

NextExpiry == call_get_expiration_date

SpecExpiry == InitExpiry /\ [][NextExpiry]_vars

ExpiryReturned == pc = "ret" /\ fn_in.fn = "get_expiration_date"

DaysAhead == fn_out.date - fn_in.now

\* C26: on every weekday of the current date get_expiration_date returns a
\* date 5 to 7 days ahead for the Short timeframe and 20 to 28 days ahead
\* for the Medium timeframe.
C26_WithinDocumentedDays ==
    ExpiryReturned =>
       IF fn_in.timeframe = "Short"
       THEN DaysAhead \in 5..7
       ELSE DaysAhead \in 20..28

-----------------------------------------------------------------------------
(* option.rs: retrieve_option_chains_with_expiry. The symbols of the file  *)
(* are numbered 1, 2, ...; the answers of the Tiger API are chosen freely. *)

\* symbols.chunks(10)
CHAIN_BATCH == 10

ChainSymbolCounts == {1, 10, 11, 21}

\* the position in the file of the symbol without a stored row; 0 for none
MissingAt == {0, 1, 11, 21}

ChainDtes == {4, 5}

OptionStrike(underlying, strike_from, strike_to, dte) ==
    [underlying |-> underlying, strike_from |-> strike_from,
     strike_to |-> strike_to, dte |-> dte]

InitChains ==
    /\ overflow_checks = FALSE
    /\ PERCENTILE = Fin(3, 4)
    /\ period \in {5, 20}
    /\ \E n \in ChainSymbolCounts, no_drop \in MissingAt, no_candle \in MissingAt :
          /\ symbols = [i \in 1..n |-> i]
          /\ max_drop_periods =
                {MaxDropRow(i, period, Fin(1, 10), Fin(1, 100), 1) :
                    i \in (1..n) \ {no_drop}}
          /\ candle = {Candle(i, Fin(10, 1), Fin(10, 1), Fin(10, 1), Fin(10, 1),
                              U32(0, 0), 1) : i \in (1..n) \ {no_candle}}
    /\ true_range = {}
    /\ sharpe_ratio = {}
    /\ option_strike = {}
    /\ pc = "chains"
    /\ todo = <<>>
    /\ idx = 1
    /\ risk_free_rate = ZERO
    /\ true_range_vec = <<>>
    /\ result = "running"
    /\ outcome = NoOutcome
    /\ fn_in = NoArgs
    /\ fn_out = NoArgs

\* the loop over the symbols of a batch: Err of get_max_drop(..)?, a panic of
\* get_candles(..)?[0] on an empty vector, or Ok(the rows to ask for)
RECURSIVE symbol_strike_ranges(_, _, _, _, _, _)
symbol_strike_ranges(chunk, i, drops, candles, dte, p) ==
    IF i = 0 THEN Ok(<<>>)
    ELSE \* the symbols before the i-th
         LET before == CHOOSE r \in {symbol_strike_ranges(chunk, i - 1, drops,
                                                          candles, dte, p)} : TRUE
         IN  IF before.tag # "Ok" THEN before
             ELSE LET symbol == chunk[i]
                      drop   == get_max_drop(drops, symbol, p)
                      latest == get_candles(candles, symbol, 1)
                  IN  IF drop.tag = "Err" THEN Err("DatabaseError")
                      ELSE IF latest = <<>> THEN Panic
                      ELSE LET range == calculate_adjusted_strike_range(
                                           latest[1].close, drop.v[1], drop.v[2],
                                           dte, p)
                           IN  Ok(Append(before.v,
                                         OptionStrike(symbol, range[1], range[2], dte)))

\* one iteration of the loop over the batches
chains_batch ==
    /\ pc = "chains"
    /\ idx <= Len(symbols)
    /\ LET last  == Min2(idx + CHAIN_BATCH - 1, Len(symbols))
           chunk == SubSeq(symbols, idx, last)
       IN  \E expirations \in {"Err", "none", "some"}, dte \in ChainDtes,
              chains \in {"Err", "Ok"} :
              IF expirations # "some"
              THEN /\ idx' = idx + CHAIN_BATCH
                   /\ UNCHANGED <<pc, result, option_strike>>
              ELSE \E r \in {symbol_strike_ranges(chunk, Len(chunk), max_drop_periods,
                                                  candle, dte, period)} :
                      CASE r.tag = "Err" ->
                             /\ pc' = "done" /\ result' = "Err"
                             /\ UNCHANGED <<idx, option_strike>>
                        [] r.tag = "panic" ->
                             /\ pc' = "dead" /\ result' = "panic"
                             /\ UNCHANGED <<idx, option_strike>>
                        [] OTHER ->
                             /\ idx' = idx + CHAIN_BATCH
                             /\ option_strike' =
                                   IF chains = "Err" THEN option_strike
                                   ELSE option_strike
                                           \cup {r.v[k] : k \in 1..Len(r.v)}
                             /\ UNCHANGED <<pc, result>>
    /\ UNCHANGED <<candle, true_range, max_drop_periods, sharpe_ratio, config,
                   fnvars, symbols, period, risk_free_rate, true_range_vec,
                   outcome, todo>>

\* after the last batch: the Sharpe ratios are read and the chains published
chains_publish ==
    /\ pc = "chains"
    /\ idx > Len(symbols)
    /\ pc' = "done"
    /\ \E published \in BOOLEAN : result' = IF published THEN "Ok" ELSE "Err"
    /\ UNCHANGED <<tables, config, fnvars, symbols, idx, period, risk_free_rate,
                   true_range_vec, outcome, todo>>

NextChains == chains_batch \/ chains_publish

SpecChains == InitChains /\ [][NextChains]_vars

\* C25: the symbols are processed in batches of at most 10, and a failure
\* within one batch (no expirations, no nearest expiration, a symbol without
\* a stored DropMetric or without a stored candle, a failed chain query) does
\* not abort the operation: the chains saved so far stay saved and the next
\* batch is processed.
C25_BatchFailureDoesNotAbort ==
    [][pc = "chains" /\ idx <= Len(symbols) =>
          /\ pc' = "chains"
          /\ idx' = idx + CHAIN_BATCH
          /\ option_strike \subseteq option_strike']_vars

-----------------------------------------------------------------------------
(* store/candle.rs: sequences of save_candles and get_candles calls on the *)
(* table candle. The prices are those of the API's JSON, which are finite. *)

CandleTimestamps == {1, 2, 3}
CandleCloses == {Fin(1, 1), Fin(2, 1)}
CandleCounts == {0, 1, 2, 4}

\* the candles of A take every close and timestamp, those of B one close
StoreCandles ==
    {Candle("A", Fin(1, 1), Fin(2, 1), Fin(1, 1), c, U32(0, 0), ts) :
        c \in CandleCloses, ts \in CandleTimestamps}
    \cup {Candle("B", Fin(1, 1), Fin(2, 1), Fin(1, 1), Fin(1, 1), U32(0, 0), ts) :
             ts \in {1, 2}}

\* the slices given to save_candles
CandleLists ==
    {<<>>} \cup {<<c>> : c \in StoreCandles}
           \cup {<<c, d>> : c \in StoreCandles, d \in StoreCandles}

InitCandleStore ==
    /\ Idle
    /\ overflow_checks = FALSE
    /\ pc = "store"
    /\ fn_in = NoArgs
    /\ fn_out = NoArgs

call_save_candles ==
    /\ pc = "store"
    /\ \E candles \in CandleLists :
          /\ fn_in' = [fn |-> "save_candles", candles |-> candles]
          /\ fn_out' = [tag |-> "Ok"]
          /\ candle' = save_candles(candle, candles, Len(candles))
    /\ UNCHANGED <<true_range, max_drop_periods, sharpe_ratio, option_strike,
                   config, pc, symbols, idx, period, risk_free_rate,
                   true_range_vec, result, outcome, todo>>

call_get_candles ==
    /\ pc = "store"
    /\ \E s \in Symbols, count \in CandleCounts :
          /\ fn_in' = [fn |-> "get_candles", symbol |-> s, count |-> count]
          /\ fn_out' = Ok(get_candles(candle, s, count))
    /\ UNCHANGED <<tables, config, pc, symbols, idx, period, risk_free_rate,
                   true_range_vec, result, outcome, todo>>

NextCandleStore == call_save_candles \/ call_get_candles

SpecCandleStore == InitCandleStore /\ [][NextCandleStore]_vars

\* the position of the last candle of the slice with the key k; 0 for none
LastSaved(candles, k) ==
    LET at == {i \in 1..Len(candles) : CandleKey(candles[i]) = k}
    IN  IF at = {} THEN 0 ELSE CHOOSE i \in at : \A j \in at : j <= i

\* C27: after any sequence of save_candles calls the table holds one candle
\* per (symbol, timestamp), with the values that were saved last, and
\* get_candles(symbol, count) returns exactly min(count, stored) candles of
\* that symbol: those with the largest timestamps, strictly ascending by
\* timestamp, and never a candle of another symbol.
C27_LatestCandlesAscending ==
    [][/\ \A r, q \in candle' : CandleKey(r) = CandleKey(q) => r = q
       /\ fn_in'.fn = "save_candles" =>
             \A s \in Symbols, ts \in CandleTimestamps :
                LET k    == <<s, ts>>
                    last == LastSaved(fn_in'.candles, k)
                IN  {r \in candle' : CandleKey(r) = k}
                       = IF last = 0 THEN {r \in candle : CandleKey(r) = k}
                         ELSE {fn_in'.candles[last]}
       /\ fn_in'.fn = "get_candles" =>
             LET out    == fn_out'.v
                 stored == {r \in candle : r.symbol = fn_in'.symbol}
                 got    == {out[i] : i \in 1..Len(out)}
             IN  /\ candle' = candle
                 /\ fn_out'.tag = "Ok"
                 /\ Len(out) = Min2(fn_in'.count, Cardinality(stored))
                 /\ got \subseteq stored
                 /\ \A i \in 1..(Len(out) - 1) :
                       out[i].timestamp < out[i + 1].timestamp
                 /\ \A r \in stored \ got, q \in got :
                       r.timestamp < q.timestamp]_vars

\* the two latest of the three stored candles of A are returned, the one of
\* timestamp 2 with the close that was saved last, while B has a candle too
C27_Witness ==
    /\ pc = "store"
    /\ fn_in.fn = "get_candles"
    /\ fn_in.symbol = "A" /\ fn_in.count = 2
    /\ fn_out = Ok(<<Candle("A", Fin(1, 1), Fin(2, 1), Fin(1, 1), Fin(2, 1),
                            U32(0, 0), 2),
                     Candle("A", Fin(1, 1), Fin(2, 1), Fin(1, 1), Fin(1, 1),
                            U32(0, 0), 3)>>)
    /\ Cardinality({r \in candle : r.symbol = "A"}) = 3
    /\ \E r \in candle : r.symbol = "B"

-----------------------------------------------------------------------------
(* Successive range-metrics and Sharpe runs on a database that holds the   *)
(* rows of earlier runs, each run with its own symbols file.               *)

RunSymbolLists == {<<"A">>, <<"A", "B">>, <<"B", "A">>}
RunCommands == {<<"atr", "atr">>, <<"sharpe", "sharpe">>}
RunKinds == {"one", "zig15", "wave25", "zero25"}

\* the rows an earlier run has left for a symbol
PriorRange(s) == TrueRange(s, Fin(1, 2), Fin(1, 4), 0)
PriorSharpe(s) == SharpeRow(s, Fin(1, 2), 0)

InitRuns ==
    /\ overflow_checks = FALSE
    /\ PERCENTILE \in PercentileChoices
    /\ \E kinds \in [Symbols -> RunKinds] :
          candle = UNION {SeriesRows(kinds[s], s) : s \in Symbols}
    /\ \E prior \in SUBSET Symbols :
          /\ true_range = {PriorRange(s) : s \in prior}
          /\ sharpe_ratio = {PriorSharpe(s) : s \in prior}
    /\ max_drop_periods = {}
    /\ option_strike = {}
    /\ pc = "idle"
    /\ todo \in RunCommands
    /\ symbols = <<>>
    /\ idx = 1
    /\ period = 5
    /\ risk_free_rate = ZERO
    /\ true_range_vec = <<>>
    /\ result = "none"
    /\ outcome = NoOutcome
    /\ fn_in = NoArgs
    /\ fn_out = NoArgs

\* the next run of the command line starts and reads its symbols file
run_start(kind) ==
    /\ pc = "idle"
    /\ todo # <<>>
    /\ Head(todo) = kind
    /\ todo' = Tail(todo)
    /\ pc' = kind
    /\ symbols' \in RunSymbolLists
    /\ idx' = 1
    /\ true_range_vec' = <<>>
    /\ result' = "running"
    /\ outcome' = NoOutcome
    /\ UNCHANGED <<tables, config, fnvars, period>>

atr_run_start ==
    /\ run_start("atr")
    /\ UNCHANGED risk_free_rate

sharpe_run_start ==
    /\ run_start("sharpe")
    /\ risk_free_rate' \in RiskFreeRates

NextRuns ==
    \/ atr_run_start
    \/ atr_step
    \/ atr_save
    \/ sharpe_run_start
    \/ sharpe_step
    \/ sharpe_finish

SpecRuns == InitRuns /\ [][NextRuns]_vars

RowsOf(tbl, s) == {r \in tbl : r.symbol = s}

\* C28: a range-metrics run writes nothing to the table true_range before
\* every symbol of the list has been processed: a step that goes on to the
\* next symbol, or that ends the run with an error (or a panic), leaves the
\* table as it was, and the step that ends the run with Ok, after the last
\* symbol, writes all the computed rows together.
C28_RangesWrittenAtTheEnd ==
    [][pc = "atr" =>
          IF result' # "Ok" THEN true_range' = true_range
          ELSE /\ idx > Len(symbols)
               /\ \A i \in 1..Len(true_range_vec) :
                     RowsOf(true_range', true_range_vec[i].symbol)
                        = {true_range_vec[i]}
               /\ \A s \in Symbols :
                     (\A i \in 1..Len(true_range_vec) : true_range_vec[i].symbol # s)
                        => RowsOf(true_range', s) = RowsOf(true_range, s)]_vars

\* the symbol's iteration of the run that has just ended pushed a TrueRange
Computed(s) == \E i \in 1..Len(true_range_vec) : true_range_vec[i].symbol = s

\* C30: when a range-metrics run ends with Ok the table true_range holds at
\* most one row per symbol; the row of a symbol computed in the run is the
\* run's value, and a symbol that was skipped for having fewer than 4 bars,
\* or that is absent from the run's list, keeps the row it had, timestamp
\* included.
C30_OneRangePerSymbol ==
    [][pc = "atr" /\ result' = "Ok" =>
          /\ \A r, q \in true_range' : r.symbol = q.symbol => r = q
          /\ \A s \in Symbols :
                IF Computed(s)
                THEN \E i \in 1..Len(true_range_vec) :
                        RowsOf(true_range', s) = {true_range_vec[i]}
                ELSE /\ outcome[s] \in {"skipped", "none"}
                     /\ RowsOf(true_range', s) = RowsOf(true_range, s)]_vars

\* the row a Sharpe run stores for a symbol, if its iteration succeeds
RunSharpeRows(s) ==
    LET r == sharpe_symbol(get_candles(candle, s, CANDLE_COUNT), risk_free_rate)
    IN  IF r.tag = "Ok" THEN {SharpeRow(s, r.v[1], r.v[2])} ELSE {}

\* C29: a Sharpe run persists symbol by symbol in file order: the iteration
\* of the k-th symbol changes no row but that symbol's; when it ends the run
\* with an error it changes nothing, the rows of the first k-1 symbols are
\* this run's values, and (in the first run on the database) the rows of the
\* k-th and of every later symbol are those from before the run.
C29_SharpePersistedInOrder ==
    [][pc = "sharpe" =>
          /\ \A s \in Symbols :
                (idx > Len(symbols) \/ s # symbols[idx])
                   => RowsOf(sharpe_ratio', s) = RowsOf(sharpe_ratio, s)
          /\ result' = "Err" =>
                /\ sharpe_ratio' = sharpe_ratio
                /\ \A i \in 1..(idx' - 1) :
                      /\ RunSharpeRows(symbols[i]) # {}
                      /\ RowsOf(sharpe_ratio', symbols[i]) = RunSharpeRows(symbols[i])
          /\ Len(todo) = 1 =>
                \A i \in idx'..Len(symbols) :
                   RowsOf(sharpe_ratio', symbols[i])
                      = RowsOf(sharpe_ratio, symbols[i]) \cap {PriorSharpe(symbols[i])}]_vars

\* the run has failed at its second symbol B: the row of A is this run's
\* and the row of B is the one from before the run
C29_Witness ==
    /\ pc = "idle"
    /\ result = "Err"
    /\ Len(todo) = 1
    /\ symbols = <<"A", "B">>
    /\ idx = 2
    /\ outcome["B"] = "stat_failed"
    /\ PriorSharpe("A") \notin sharpe_ratio
    /\ RowsOf(sharpe_ratio, "A") = RunSharpeRows("A")
    /\ RowsOf(sharpe_ratio, "B") = {PriorSharpe("B")}

====
